---------------------------- MODULE Spec2Model ----------------------------
(***************************************************************************)
(* Scoring and ranking engine of jobspy_llm_letters: JobScorer.score_job   *)
(* (scoring.py) and the deduplicate / score / sort / filter pipeline of    *)
(* JobSpyApp (main.py).                                                    *)
(*                                                                         *)
(* Texts are sequences of one-character strings, so that substring tests   *)
(* (Python's `in`), str.lower() and the regex word boundary \b are         *)
(* computed as the code computes them.  The keyword score is accumulated   *)
(* in IEEE-754 binary64 arithmetic, as Python's float does.                *)
(***************************************************************************)
EXTENDS Integers, Sequences, FiniteSets, TLC

(***************************************************************************)
(* Characters and strings                                                  *)
(***************************************************************************)

\* str.lower() on the characters the model uses.
UpperToLower ==
    [c \in {"A","B","C","D","E","F","G","H","I","J","K","L","M","N","O","P",
            "Q","R","S","T","U","V","W","X","Y","Z"} |->
        CASE c = "A" -> "a" [] c = "B" -> "b" [] c = "C" -> "c" [] c = "D" -> "d"
          [] c = "E" -> "e" [] c = "F" -> "f" [] c = "G" -> "g" [] c = "H" -> "h"
          [] c = "I" -> "i" [] c = "J" -> "j" [] c = "K" -> "k" [] c = "L" -> "l"
          [] c = "M" -> "m" [] c = "N" -> "n" [] c = "O" -> "o" [] c = "P" -> "p"
          [] c = "Q" -> "q" [] c = "R" -> "r" [] c = "S" -> "s" [] c = "T" -> "t"
          [] c = "U" -> "u" [] c = "V" -> "v" [] c = "W" -> "w" [] c = "X" -> "x"
          [] c = "Y" -> "y" [] c = "Z" -> "z"]

LowerChar(c) == IF c \in DOMAIN UpperToLower THEN UpperToLower[c] ELSE c

\* text.lower()
Lower(s) == [i \in 1..Len(s) |-> LowerChar(s[i])]

\* The characters the regex class \w matches (letters, digits, underscore).
WordChars ==
    {"a","b","c","d","e","f","g","h","i","j","k","l","m","n","o","p","q","r",
     "s","t","u","v","w","x","y","z","ä",
     "0","1","2","3","4","5","6","7","8","9","_"} \cup DOMAIN UpperToLower

IsWordChar(c) == c \in WordChars

\* s occurs in t at position p (1-based).
OccursAt(s, t, p) ==
    /\ p >= 1
    /\ p + Len(s) - 1 <= Len(t)
    /\ \A j \in 1..Len(s) : t[p + j - 1] = s[j]

\* Python's `s in t` on strings (the first character is compared before the
\* rest).
Contains(t, s) ==
    \/ Len(s) = 0
    \/ \E p \in 1..(Len(t) - Len(s) + 1) : t[p] = s[1] /\ OccursAt(s, t, p)

\* " ".join / sep.join
RECURSIVE Join(_, _)
Join(parts, sep) ==
    IF Len(parts) = 0 THEN << >>
    ELSE IF Len(parts) = 1 THEN parts[1]
    ELSE parts[1] \o sep \o Join(Tail(parts), sep)

Space == <<" ">>

\* str(n) for a natural number.
DigitChar(d) ==
    CASE d = 0 -> "0" [] d = 1 -> "1" [] d = 2 -> "2" [] d = 3 -> "3" [] d = 4 -> "4"
      [] d = 5 -> "5" [] d = 6 -> "6" [] d = 7 -> "7" [] d = 8 -> "8" [] d = 9 -> "9"

RECURSIVE NatStr(_)
NatStr(n) == IF n < 10 THEN <<DigitChar(n)>> ELSE NatStr(n \div 10) \o <<DigitChar(n % 10)>>

(***************************************************************************)
(* The regex  \b<keyword>\b  and re.findall                                *)
(***************************************************************************)

\* \b at position p: between t[p-1] and t[p], exactly one is a word character
\* (outside the string counts as a non-word character).
WordBoundary(t, p) ==
    LET before == p - 1 >= 1 /\ p - 1 <= Len(t) /\ IsWordChar(t[p - 1])
        after  == p >= 1 /\ p <= Len(t) /\ IsWordChar(t[p])
    IN  before # after

\* The pattern without its two \b: a plain substring match.
PatternMatchesAtNoBoundary(kw, t, p) == OccursAt(kw, t, p)

\* rf"\b{re.escape(kw)}\b" matches at p.
PatternMatchesAt(kw, t, p) ==
    /\ OccursAt(kw, t, p)
    /\ WordBoundary(t, p)
    /\ WordBoundary(t, p + Len(kw))

\* len(re.findall(pattern, text)): non-overlapping matches, scanned left to right
\* (a match at p begins with the first character of the keyword).
RECURSIVE FindAllFrom(_, _, _)
FindAllFrom(kw, t, p) ==
    IF p + Len(kw) - 1 > Len(t) THEN 0
    ELSE IF t[p] = kw[1] /\ PatternMatchesAt(kw, t, p) THEN 1 + FindAllFrom(kw, t, p + Len(kw))
    ELSE FindAllFrom(kw, t, p + 1)

FindAllCount(kw, t) == FindAllFrom(kw, t, 1)

(***************************************************************************)
(* IEEE-754 binary64 arithmetic, as far as _score_keywords uses it.        *)
(* A float is [s |-> sign, m |-> magnitude]; the magnitude is a natural    *)
(* number in units of 2^-56, held in three limbs <<hi, mid, lo>> of 24     *)
(* bits each (TLC's integers are 32 bits wide).                            *)
(***************************************************************************)
Limb == 2^24

\* 0.8 ** k for k = 0..12 (index k+1), each a binary64 value, in units of 2^-56.
Pow08 ==
    << <<256, 0, 0>>,                 \* 0.8**0  = 0x1.0000000000000p+0
       <<204, 13421772, 13421776>>,   \* 0.8**1  = 0x1.999999999999ap-1
       <<163, 14092861, 7381984>>,    \* 0.8**2  = 0x1.47ae147ae147cp-1
       <<131, 1207959, 9261032>>,     \* 0.8**3  = 0x1.0624dd2f1a9fdp-1
       <<104, 14388140, 7408824>>,    \* 0.8**4  = 0x1.a36e2eb1c432ep-2
       <<83, 14865955, 9282504>>,     \* 0.8**5  = 0x1.4f8b588e368f2p-2
       <<67, 1826434, 14136892>>,     \* 0.8**6  = 0x1.0c6f7a0b5ed8fp-2
       <<53, 11527477, 7954070>>,     \* 0.8**7  = 0x1.ad7f29abcaf4bp-3
       <<42, 15932868, 6363258>>,     \* 0.8**8  = 0x1.5798ee2308c3dp-3
       <<34, 6035408, 5090606>>,      \* 0.8**9  = 0x1.12e0be826d697p-3
       <<27, 8183769, 14138815>>,     \* 0.8**10 = 0x1.b7cdfd9d7bdbfp-4
       <<21, 16613345, 7955609>>,     \* 0.8**11 = 0x1.5fd7fe1796499p-4
       <<17, 9935233, 3009044>> >>    \* 0.8**12 = 0x1.19799812dea14p-4

MagZero == <<0, 0, 0>>

\* Carry propagation after a limb-wise operation with non-negative limbs.
MagNorm(m) ==
    LET c0 == m[3] \div Limb
        t1 == m[2] + c0
        c1 == t1 \div Limb
    IN  <<m[1] + c1, t1 % Limb, m[3] % Limb>>

MagAdd(a, b) == MagNorm(<<a[1] + b[1], a[2] + b[2], a[3] + b[3]>>)

MagLess(a, b) ==
    \/ a[1] < b[1]
    \/ a[1] = b[1] /\ a[2] < b[2]
    \/ a[1] = b[1] /\ a[2] = b[2] /\ a[3] < b[3]

\* a - b for a >= b.
MagSub(a, b) ==
    LET d0 == a[3] - b[3]
        b0 == IF d0 < 0 THEN 1 ELSE 0
        d1 == a[2] - b[2] - b0
        b1 == IF d1 < 0 THEN 1 ELSE 0
    IN  <<a[1] - b[1] - b1, d1 + b1 * Limb, d0 + b0 * Limb>>

\* n * m for a natural number n < 128.
MagMulSmall(n, m) == MagNorm(<<n * m[1], n * m[2], n * m[3]>>)

RECURSIVE BitLen(_)
BitLen(n) == IF n = 0 THEN 0 ELSE 1 + BitLen(n \div 2)

MagBitLen(m) ==
    IF m[1] > 0 THEN 48 + BitLen(m[1])
    ELSE IF m[2] > 0 THEN 24 + BitLen(m[2])
    ELSE BitLen(m[3])

\* Round to nearest, ties to even, to a 53-bit significand.
Round53(m) ==
    LET len == MagBitLen(m)
    IN  IF len <= 53 THEN m
        ELSE LET q    == 2^(len - 53)
                 rem  == m[3] % q
                 odd  == (m[3] \div q) % 2 = 1
                 up   == 2 * rem > q \/ (2 * rem = q /\ odd)
             IN  MagNorm(<<m[1], m[2], m[3] - rem + (IF up THEN q ELSE 0)>>)

FloatZero == [s |-> 1, m |-> MagZero]

\* float(i) * 0.8**k for an integer i with |i| < 128.
FloatMulIntPow(i, k) ==
    [s |-> IF i < 0 THEN -1 ELSE 1,
     m |-> Round53(MagMulSmall(IF i < 0 THEN -i ELSE i, Pow08[k + 1]))]

FloatAdd(x, y) ==
    IF x.s = y.s THEN [s |-> x.s, m |-> Round53(MagAdd(x.m, y.m))]
    ELSE IF MagLess(x.m, y.m) THEN [s |-> y.s, m |-> Round53(MagSub(y.m, x.m))]
    ELSE IF MagLess(y.m, x.m) THEN [s |-> x.s, m |-> Round53(MagSub(x.m, y.m))]
    ELSE FloatZero

\* int(x): truncation toward zero.
FloatToInt(x) == x.s * (x.m[1] \div 256)


(***************************************************************************)
(* JobScorer (scoring.py)                                                  *)
(***************************************************************************)

\* JobScorer.__init__: the vocabulary tables of a fresh scorer.
negative_keywords ==
    << <<"s", "e", "n", "i", "o", "r">>,
       <<"l", "e", "a", "d">>,
       <<"l", "e", "i", "t", "e", "r">>,
       <<"h", "e", "a", "d">>,
       <<"d", "i", "r", "e", "c", "t", "o", "r">>,
       <<"m", "a", "n", "a", "g", "e", "r">>,
       <<"5", "+", " ", "j", "a", "h", "r", "e">>,
       <<"m", "e", "h", "r", "j", "ä", "h", "r", "i", "g">>,
       <<"l", "a", "n", "g", "j", "ä", "h", "r", "i", "g">>,
       <<"e", "r", "f", "a", "h", "r", "e", "n">>,
       <<"v", "o", "l", "l", "z", "e", "i", "t">>,
       <<"4", "0", " ", "s", "t", "u", "n", "d", "e", "n">>,
       <<"u", "n", "b", "e", "f", "r", "i", "s", "t", "e", "t">> >>

preferred_locations ==
    << <<"m", "a", "i", "n", "z">>,
       <<"w", "i", "e", "s", "b", "a", "d", "e", "n">>,
       <<"f", "r", "a", "n", "k", "f", "u", "r", "t">>,
       <<"d", "a", "r", "m", "s", "t", "a", "d", "t">>,
       <<"m", "a", "n", "n", "h", "e", "i", "m">>,
       <<"r", "e", "m", "o", "t", "e">>,
       <<"h", "o", "m", "e", "o", "f", "f", "i", "c", "e">>,
       <<"h", "y", "b", "r", "i", "d">> >>

\* (pattern, description); the pattern "minimum.*jahr" is held as its two literals.
warning_patterns ==
    << [pattern |-> << <<"v", "o", "l", "l", "z", "e", "i", "t">> >>,
        description |-> "Vollzeit-Position"],
       [pattern |-> << <<"u", "n", "b", "e", "f", "r", "i", "s", "t", "e", "t">> >>,
        description |-> "Unbefristete Stelle"],
       [pattern |-> << <<"b", "e", "r", "u", "f", "s", "e", "r", "f", "a", "h", "r", "u", "n", "g">> >>,
        description |-> "Berufserfahrung erforderlich"],
       [pattern |-> << <<"a", "b", "g", "e", "s", "c", "h", "l", "o", "s", "s", "e", "n">> >>,
        description |-> "Abgeschlossenes Studium"],
       [pattern |-> << <<"m", "i", "n", "i", "m", "u", "m">>, <<"j", "a", "h", "r">> >>,
        description |-> "Mindesterfahrung erforderlich"] >>

NewJobScorer ==
    [negative_keywords   |-> negative_keywords,
     preferred_locations |-> preferred_locations,
     warning_patterns    |-> warning_patterns]

\* The literals the methods compare against.
RemoteTier == { <<"r", "e", "m", "o", "t", "e">>,
                <<"h", "o", "m", "e", "o", "f", "f", "i", "c", "e">>,
                <<"h", "y", "b", "r", "i", "d">> }

remote_indicators ==
    << <<"r", "e", "m", "o", "t", "e">>,
       <<"h", "o", "m", "e", "o", "f", "f", "i", "c", "e">>,
       <<"h", "o", "m", "e", " ", "o", "f", "f", "i", "c", "e">>,
       <<"h", "o", "m", "e", "-", "o", "f", "f", "i", "c", "e">>,
       <<"f", "e", "r", "n", "a", "r", "b", "e", "i", "t">>,
       <<"m", "o", "b", "i", "l", "e", "s", " ", "a", "r", "b", "e", "i", "t", "e", "n">>,
       <<"h", "y", "b", "r", "i", "d">> >>

SeniorTier == { <<"s", "e", "n", "i", "o", "r">>, <<"l", "e", "a", "d">>,
                <<"l", "e", "i", "t", "e", "r">> }

FulltimeTier == { <<"v", "o", "l", "l", "z", "e", "i", "t">>,
                  <<"4", "0", " ", "s", "t", "u", "n", "d", "e", "n">> }

S_fulltime    == <<"f", "u", "l", "l", "t", "i", "m", "e">>
S_vollzeit    == <<"v", "o", "l", "l", "z", "e", "i", "t">>
S_teilzeit    == <<"t", "e", "i", "l", "z", "e", "i", "t">>
S_werkstudent == <<"w", "e", "r", "k", "s", "t", "u", "d", "e", "n", "t">>
S_unbefristet == <<"u", "n", "b", "e", "f", "r", "i", "s", "t", "e", "t">>
S_befristet   == <<"b", "e", "f", "r", "i", "s", "t", "e", "t">>

Min(a, b) == IF a < b THEN a ELSE b
Max(a, b) == IF a > b THEN a ELSE b

\* f"{keyword} (x{matches})"
MatchedEntry(keyword, matches) ==
    keyword \o <<" ", "(", "x">> \o NatStr(matches) \o <<")">>

\* The contribution subtracted instead of added.
AddContributionSubtracting(score, weight, matches) ==
    FloatAdd(score, FloatMulIntPow(-(weight * Min(matches, 3)), Max(0, matches - 1)))

\* The contribution without the cap of the count at 3.
AddContributionUncapped(score, weight, matches) ==
    FloatAdd(score, FloatMulIntPow(weight * matches, Max(0, matches - 1)))

\* One pass of the loop body of _score_keywords: the contribution of one keyword
\* with `matches` > 0 occurrences, added to the running score.  The running score
\* is the int 0 until the first addition makes it a float.
AddContribution(score, weight, matches) ==
    FloatAdd(score, FloatMulIntPow(weight * Min(matches, 3), Max(0, matches - 1)))

\* The loop with a keyword of weight 0 skipped before it is counted or reported.
RECURSIVE ScoreKeywordsLoopSkippingZeroWeight(_, _, _, _, _)
ScoreKeywordsLoopSkippingZeroWeight(text, keywords, i, score, matched) ==
    IF i > Len(keywords) THEN [score |-> score, matched |-> matched]
    ELSE LET keyword == keywords[i].keyword
             weight  == keywords[i].weight
             matches == FindAllCount(Lower(keyword), text)
         IN  IF matches > 0 /\ weight # 0
             THEN ScoreKeywordsLoopSkippingZeroWeight(text, keywords, i + 1,
                                    AddContribution(score, weight, matches),
                                    Append(matched, MatchedEntry(keyword, matches)))
             ELSE ScoreKeywordsLoopSkippingZeroWeight(text, keywords, i + 1, score, matched)

\* The loop of _score_keywords over keywords.items(), in insertion order.
RECURSIVE ScoreKeywordsLoop(_, _, _, _, _)
ScoreKeywordsLoop(text, keywords, i, score, matched) ==
    IF i > Len(keywords) THEN [score |-> score, matched |-> matched]
    ELSE LET keyword == keywords[i].keyword
             weight  == keywords[i].weight
             matches == FindAllCount(Lower(keyword), text)
         IN  IF matches > 0
             THEN ScoreKeywordsLoop(text, keywords, i + 1,
                                    AddContribution(score, weight, matches),
                                    Append(matched, MatchedEntry(keyword, matches)))
             ELSE ScoreKeywordsLoop(text, keywords, i + 1, score, matched)

\* JobScorer._score_keywords: (int(score), matched)
score_keywords(text, keywords) ==
    LET r == ScoreKeywordsLoop(text, keywords, 1, FloatZero, << >>)
    IN  [score |-> FloatToInt(r.score), matched |-> r.matched]

\* JobScorer._score_location
RECURSIVE ScoreLocationLoop(_, _, _)
ScoreLocationLoop(locs, combined_location, i) ==
    IF i > Len(locs) THEN 0
    ELSE (IF Contains(combined_location, locs[i])
          THEN (IF locs[i] \in RemoteTier THEN 3 ELSE 1)
          ELSE 0)
         + ScoreLocationLoop(locs, combined_location, i + 1)

\* Only the explicit location field is probed, not the text.
score_location_field_only(self, text, location) ==
    ScoreLocationLoop(self.preferred_locations, location, 1)

score_location(self, text, location) ==
    ScoreLocationLoop(self.preferred_locations, text \o Space \o location, 1)

\* The bonus added for every indicator found instead of returned at the first.
calculate_remote_bonus_per_indicator(text, bonus_remote) ==
    bonus_remote
      * Cardinality({ i \in 1..Len(remote_indicators) : Contains(text, remote_indicators[i]) })

\* JobScorer._calculate_remote_bonus
calculate_remote_bonus(text, bonus_remote) ==
    IF \E i \in 1..Len(remote_indicators) : Contains(text, remote_indicators[i])
    THEN bonus_remote ELSE 0

\* The full-time penalty as malus_senior // 2, without its floor of 1.
RECURSIVE SeniorityLoopHalving(_, _, _, _)
SeniorityLoopHalving(negs, text, malus_senior, i) ==
    IF i > Len(negs) THEN 0
    ELSE (IF Contains(text, negs[i])
          THEN (IF negs[i] \in SeniorTier THEN malus_senior
                ELSE IF negs[i] \in FulltimeTier THEN malus_senior \div 2
                ELSE 1)
          ELSE 0)
         + SeniorityLoopHalving(negs, text, malus_senior, i + 1)

\* JobScorer._calculate_seniority_malus
RECURSIVE SeniorityLoop(_, _, _, _)
SeniorityLoop(negs, text, malus_senior, i) ==
    IF i > Len(negs) THEN 0
    ELSE (IF Contains(text, negs[i])
          THEN (IF negs[i] \in SeniorTier THEN malus_senior
                ELSE IF negs[i] \in FulltimeTier THEN Max(1, malus_senior \div 2)
                ELSE 1)
          ELSE 0)
         + SeniorityLoop(negs, text, malus_senior, i + 1)

\* The accumulated penalty returned without the cap.
CapPenaltyMissing(penalty, malus_senior) == penalty

\* The cap set at malus_senior instead of twice that.
CapPenaltyAtMalus(penalty, malus_senior) == Min(penalty, malus_senior)

\* max taken where min is meant.
CapPenaltyMax(penalty, malus_senior) == Max(penalty, malus_senior * 2)

\* The cap applied to the accumulated penalty.
CapPenalty(penalty, malus_senior) == Min(penalty, malus_senior * 2)

calculate_seniority_malus(self, text, malus_senior) ==
    CapPenalty(SeniorityLoop(self.negative_keywords, text, malus_senior, 1), malus_senior)

\* The full-time penalty without the test for "werkstudent".
calculate_length_penalty_ignoring_werkstudent(text, job_type) ==
    (IF (job_type = S_fulltime \/ Contains(text, S_vollzeit))
        /\ ~Contains(text, S_teilzeit)
     THEN 2 ELSE 0)
    + (IF Contains(text, S_unbefristet) /\ ~Contains(text, S_befristet)
       THEN 1 ELSE 0)

\* JobScorer._calculate_length_penalty
calculate_length_penalty(text, job_type) ==
    (IF (job_type = S_fulltime \/ Contains(text, S_vollzeit))
        /\ ~Contains(text, S_teilzeit) /\ ~Contains(text, S_werkstudent)
     THEN 2 ELSE 0)
    + (IF Contains(text, S_unbefristet) /\ ~Contains(text, S_befristet)
       THEN 1 ELSE 0)

\* re.search of one warning pattern: a literal, or "a.*b" ('.' matches no newline).
PatternSearch(pattern, text) ==
    IF Len(pattern) = 1 THEN Contains(text, pattern[1])
    ELSE \E p \in 1..Len(text) :
            /\ OccursAt(pattern[1], text, p)
            /\ \E q \in (p + Len(pattern[1]))..Len(text) :
                  /\ OccursAt(pattern[2], text, q)
                  /\ \A j \in (p + Len(pattern[1]))..(q - 1) : text[j] # "\n"

\* JobScorer._detect_warning_flags
RECURSIVE WarningLoop(_, _, _)
WarningLoop(pats, text, i) ==
    IF i > Len(pats) THEN << >>
    ELSE (IF PatternSearch(pats[i].pattern, text) THEN <<pats[i].description>> ELSE << >>)
         \o WarningLoop(pats, text, i + 1)

detect_warning_flags(self, text) == WarningLoop(self.warning_patterns, text, 1)

\* The length penalty added instead of subtracted.
TotalScoreWrongSign(keyword_score, location_score, remote_bonus, seniority_malus, length_penalty) ==
    keyword_score + location_score + remote_bonus - seniority_malus + length_penalty

\* The sum that score_job returns as total_score.
TotalScore(keyword_score, location_score, remote_bonus, seniority_malus, length_penalty) ==
    keyword_score + location_score + remote_bonus - seniority_malus - length_penalty

\* score_job with the location argument joined to the text every rule reads.
score_job_location_in_text(self, text, keywords, bonus_remote, malus_senior, location, job_type) ==
    LET text_lower      == Lower(text \o Space \o location)
        kw              == score_keywords(text_lower, keywords)
        location_score  == score_location(self, text_lower, Lower(location))
        remote_bonus    == calculate_remote_bonus(text_lower, bonus_remote)
        seniority_malus == calculate_seniority_malus(self, text_lower, malus_senior)
        length_penalty  == calculate_length_penalty(text_lower, Lower(job_type))
        warning_flags   == detect_warning_flags(self, text_lower)
    IN  [total_score      |-> TotalScore(kw.score, location_score, remote_bonus,
                                         seniority_malus, length_penalty),
         keyword_score    |-> kw.score,
         location_score   |-> location_score,
         remote_bonus     |-> remote_bonus,
         seniority_malus  |-> seniority_malus,
         length_penalty   |-> length_penalty,
         matched_keywords |-> kw.matched,
         warning_flags    |-> warning_flags]

\* JobScorer.score_job
score_job(self, text, keywords, bonus_remote, malus_senior, location, job_type) ==
    LET text_lower      == Lower(text)
        kw              == score_keywords(text_lower, keywords)
        location_score  == score_location(self, text_lower, Lower(location))
        remote_bonus    == calculate_remote_bonus(text_lower, bonus_remote)
        seniority_malus == calculate_seniority_malus(self, text_lower, malus_senior)
        length_penalty  == calculate_length_penalty(text_lower, Lower(job_type))
        warning_flags   == detect_warning_flags(self, text_lower)
    IN  [total_score      |-> TotalScore(kw.score, location_score, remote_bonus,
                                         seniority_malus, length_penalty),
         keyword_score    |-> kw.score,
         location_score   |-> location_score,
         remote_bonus     |-> remote_bonus,
         seniority_malus  |-> seniority_malus,
         length_penalty   |-> length_penalty,
         matched_keywords |-> kw.matched,
         warning_flags    |-> warning_flags]


\* compute_score: a fresh scorer, total_score only.
compute_score(text, keywords, bonus_remote, malus_senior, location, job_type) ==
    score_job(NewJobScorer, text, keywords, bonus_remote, malus_senior,
              location, job_type).total_score

(***************************************************************************)
(* Inputs                                                                  *)
(***************************************************************************)

\* Phrases of a posting the rule vocabulary reacts to.
RuleFrags ==
    << <<"S", "e", "n", "i", "o", "r">>,
       <<"T", "e", "a", "m", " ", "L", "e", "a", "d">>,
       <<"H", "e", "a", "d", " ", "o", "f">>,
       <<"e", "r", "f", "a", "h", "r", "e", "n", "e", "r", " ", "T", "e", "a", "m", "l", "e", "i", "t", "e", "r">>,
       <<"V", "o", "l", "l", "z", "e", "i", "t">>,
       <<"4", "0", " ", "S", "t", "u", "n", "d", "e", "n">>,
       <<"u", "n", "b", "e", "f", "r", "i", "s", "t", "e", "t">>,
       <<"T", "e", "i", "l", "z", "e", "i", "t">>,
       <<"R", "e", "m", "o", "t", "e">>,
       <<"H", "o", "m", "e", " ", "O", "f", "f", "i", "c", "e">>,
       <<"M", "a", "i", "n", "z">> >>

\* Words the keyword policies below react to; "sqlite" holds "sql" inside a
\* larger word.
KwWords ==
    << <<"P", "y", "t", "h", "o", "n">>,
       <<"s", "q", "l">>,
       <<"s", "q", "l", "i", "t", "e">>,
       <<"s", "e", "n", "i", "o", "r">> >>

\* At most MaxFrags phrases of RuleFrags in one text.
MaxFrags == 2
\* At most MaxKwWords words of KwWords in one text.
MaxKwWords == 5
\* malus_senior ranges over 0..MaxMalus.
MaxMalus == 3
\* Weights a keyword may be raised to range up to MaxWeight.
MaxWeight == 4

RECURSIVE PickFrags(_, _)
PickFrags(frags, idx) ==
    IF idx = {} THEN << >>
    ELSE LET i == CHOOSE x \in idx : \A y \in idx : x <= y
         IN  <<frags[i]>> \o PickFrags(frags, idx \ {i})

\* Texts of the rule family: up to MaxFrags distinct phrases, space-joined.
RuleTexts ==
    { Join(PickFrags(RuleFrags, idx), Space) :
        idx \in { x \in SUBSET (1..Len(RuleFrags)) : Cardinality(x) <= MaxFrags } }

\* Texts of the keyword family: up to MaxKwWords words (with repetition),
\* space-joined, in vocabulary order.
KwTexts ==
    { Join([i \in 1..Len(f) |-> KwWords[f[i]]], Space) :
        f \in { g \in UNION { [1..n -> 1..Len(KwWords)] : n \in 0..MaxKwWords } :
                  \A i \in 1..(Len(g) - 1) : g[i] <= g[i + 1] } }

K_Python == <<"P", "y", "t", "h", "o", "n">>
K_SQL    == <<"S", "Q", "L">>
K_senior == <<"s", "e", "n", "i", "o", "r">>

\* Keyword policies (dicts, in insertion order) of the keyword family.
KwPolicies ==
    { << [keyword |-> K_Python, weight |-> a],
         [keyword |-> K_SQL,    weight |-> b],
         [keyword |-> K_senior, weight |-> c] >> :
        a \in {1, 3}, b \in {-1, 0, 1}, c \in {-1, 2} }

\* The policy of scoring.py's self-test (and of the scenario of the spec).
test_keywords ==
    << [keyword |-> <<"P", "y", "t", "h", "o", "n">>, weight |-> 4],
       [keyword |-> <<"D", "a", "t", "a", " ", "A", "n", "a", "l", "y", "t", "i", "c", "s">>, weight |-> 3],
       [keyword |-> <<"L", "i", "n", "u", "x">>, weight |-> 3],
       [keyword |-> <<"W", "e", "r", "k", "s", "t", "u", "d", "e", "n", "t">>, weight |-> 3],
       [keyword |-> <<"S", "Q", "L">>, weight |-> 2],
       [keyword |-> <<"s", "e", "n", "i", "o", "r">>, weight |-> -3],
       [keyword |-> <<"v", "o", "l", "l", "z", "e", "i", "t">>, weight |-> -2] >>

ScenarioText ==
    <<"W", "e", "r", "k", "s", "t", "u", "d", "e", "n", "t", " ", "P", "y", "t", "h", "o", "n", " ",
      "D", "a", "t", "a", " ", "A", "n", "a", "l", "y", "t", "i", "c", "s", " ", "L", "i", "n", "u", "x", " ",
      "S", "Q", "L", " ", "R", "e", "m", "o", "t", "e">>

ScenarioArgs ==
    [text |-> ScenarioText, keywords |-> test_keywords, bonus_remote |-> 3,
     malus_senior |-> 4, location |-> << >>, job_type |-> << >>]

\* (bonus_remote, location, job_type) combinations of the rule family.
Profiles ==
    { [bonus_remote |-> 2, location |-> << >>, job_type |-> << >>],
      [bonus_remote |-> 3, location |-> <<"M", "a", "i", "n", "z">>,
       job_type |-> <<"F", "u", "l", "l", "t", "i", "m", "e">>],
      [bonus_remote |-> -1, location |-> <<"R", "e", "m", "o", "t", "e">>,
       job_type |-> <<"p", "a", "r", "t", "t", "i", "m", "e">>] }

RuleArgs ==
    { [text |-> t, keywords |-> test_keywords, bonus_remote |-> p.bonus_remote,
       malus_senior |-> m, location |-> p.location, job_type |-> p.job_type] :
        t \in RuleTexts, m \in 0..MaxMalus, p \in Profiles }

\* Words around a keyword that ends in a non-word character.
EdgeWords ==
    << <<"C", "+">>,
       <<"c", "+", "x">>,
       <<"x", "c", "+">>,
       <<"P", "y", "t", "h", "o", "n">> >>

K_CPlus == <<"C", "+">>

\* Texts of the edge family: up to MaxFrags words of EdgeWords, space-joined.
EdgeTexts ==
    { Join([i \in 1..Len(f) |-> EdgeWords[f[i]]], Space) :
        f \in UNION { [1..n -> 1..Len(EdgeWords)] : n \in 0..MaxFrags } }

EdgeArgs ==
    { [text |-> t,
       keywords |-> << [keyword |-> K_CPlus, weight |-> 2],
                       [keyword |-> K_Python, weight |-> 1] >>,
       bonus_remote |-> 2, malus_senior |-> 3, location |-> << >>, job_type |-> << >>] :
        t \in EdgeTexts }

\* Phrases the length/type rule reacts to.
LengthFrags ==
    << <<"V", "o", "l", "l", "z", "e", "i", "t">>,
       <<"T", "e", "i", "l", "z", "e", "i", "t">>,
       <<"W", "e", "r", "k", "s", "t", "u", "d", "e", "n", "t">>,
       <<"u", "n", "b", "e", "f", "r", "i", "s", "t", "e", "t">>,
       <<"b", "e", "f", "r", "i", "s", "t", "e", "t">> >>

\* Texts of the length family: any of the phrases of LengthFrags, space-joined.
LengthTexts ==
    { Join(PickFrags(LengthFrags, idx), Space) : idx \in SUBSET (1..Len(LengthFrags)) }

\* The length family: every job_type the rule tells apart, the rest at the
\* defaults of score_job's signature.
LengthArgs ==
    { [text |-> t, keywords |-> test_keywords, bonus_remote |-> 2, malus_senior |-> 3,
       location |-> << >>, job_type |-> j] :
        t \in LengthTexts,
        j \in { << >>, <<"F", "u", "l", "l", "t", "i", "m", "e">>,
                <<"p", "a", "r", "t", "t", "i", "m", "e">> } }

\* Texts of the seniority scenario: "Senior Lead", alone or followed by a text
\* of the rule family.
SeniorLeadText == <<"S", "e", "n", "i", "o", "r", " ", "L", "e", "a", "d">>

SeniorLeadArgs ==
    { [text |-> IF t = << >> THEN SeniorLeadText ELSE SeniorLeadText \o Space \o t,
       keywords |-> test_keywords, bonus_remote |-> 2, malus_senior |-> 3,
       location |-> << >>, job_type |-> << >>] :
        t \in RuleTexts }

\* The keyword family is scored with the defaults of score_job's signature.
KwArgs ==
    { [text |-> t, keywords |-> k, bonus_remote |-> 2, malus_senior |-> 3,
       location |-> << >>, job_type |-> << >>] :
        t \in KwTexts, k \in KwPolicies }

(***************************************************************************)
(* JobSpyApp (main.py): postings, configuration                            *)
(***************************************************************************)

\* job_url values of scraped rows.
Urls == {"u1", "u2"}

\* Titles of scraped rows (the other text fields of a row are empty strings).
Titles ==
    { <<"P", "y", "t", "h", "o", "n">>,
      <<"L", "i", "n", "u", "x">> }

RowKinds == [job_url : Urls, title : Titles]

\* A cell of a scraped frame holds a str or, where the site gave no value (and
\* where pd.concat fills a column one of the frames lacks), the float nan.
\* nan in the job_url column, next to the str values "u1", "u2" and "":
NaNUrl == "<nan>"

\* nan in the title column, next to the str values
NaN == << "<nan>" >>

\* str(value) as the nested score_job applies it to a cell: a str is itself,
\* str(float("nan")) is "nan".
Str(value) == IF value = NaN THEN <<"n", "a", "n">> ELSE value

\* Rows of sites that leave cells out: the job_url is a str, empty or nan, or
\* the title is nan.
SparseRowKinds ==
    [job_url : {"u1", "", NaNUrl}, title : {<<"L", "i", "n", "u", "x">>}]
        \cup [job_url : {"u1", "u2"}, title : {NaN}]

\* Every value of the title column.
TitleValues == Titles \cup {NaN}

\* At most MaxJobs rows are scraped in one run.
MaxJobs == 3

\* The scoring section of config.yaml; min_score and top_k as the user set them.
MinScores == {-999, 4, 5}
TopKs == {-2, -1, 0, 1, 2, 25}

\* The keywords of config.yaml as yaml.safe_load yields them: each weight is a
\* Python value with a type, an int such as 4 or a str such as "4" (held as
\* the number its digits spell).  A policy with int weights:
IntWeights(keywords) ==
    [i \in DOMAIN keywords |->
        [keyword |-> keywords[i].keyword, weight |-> keywords[i].weight, type |-> "int"]]

\* The policy of the self-test, and the same with the str "4" as weight of
\* "Python".
ConfigPolicies ==
    { IntWeights(test_keywords),
      [IntWeights(test_keywords) EXCEPT
          ![1] = [keyword |-> K_Python, weight |-> 4, type |-> "str"]] }

\* A policy with the word "nan" among its keywords.
NanPolicy ==
    IntWeights(<< [keyword |-> <<"L", "i", "n", "u", "x">>, weight |-> 3],
                  [keyword |-> <<"n", "a", "n">>, weight |-> 2] >>)

\* isinstance(weight, (int, float))
IsNumeric(entry) == entry.type \in {"int", "float"}

\* ConfigValidator.validate_scoring_config (validate.py): one error is recorded
\* for each keyword whose weight is no number and for each of min_score, top_k
\* out of its range, one warning for each weight beyond 20 (or for an empty
\* policy); the flag returned is False when an error was recorded.  Nothing is
\* raised.
validate_scoring_config(scoring) ==
    LET bad  == SelectSeq(scoring.keywords, LAMBDA e : ~IsNumeric(e))
        high == SelectSeq(scoring.keywords,
                          LAMBDA e : IsNumeric(e) /\ (e.weight > 20 \/ e.weight < -20))
        keyword_errors ==
            [i \in DOMAIN bad |->
                [keyword |-> bad[i].keyword, message |-> "Keyword weight must be numeric"]]
        min_score_errors ==
            IF scoring.min_score < -50 \/ scoring.min_score > 50
            THEN << [keyword |-> << >>,
                     message |-> "Scoring.min_score must be number between -50 and 50"] >>
            ELSE << >>
        top_k_errors ==
            IF scoring.top_k < 1 \/ scoring.top_k > 1000
            THEN << [keyword |-> << >>,
                     message |-> "Scoring.top_k must be number between 1 and 1000"] >>
            ELSE << >>
        errors == keyword_errors \o min_score_errors \o top_k_errors
    IN  [valid    |-> Len(errors) = 0,
         errors   |-> errors,
         warnings |-> IF Len(scoring.keywords) = 0
                      THEN << [keyword |-> << >>, message |-> "No keywords defined for scoring"] >>
                      ELSE [i \in DOMAIN high |->
                               [keyword |-> high[i].keyword, message |-> "Very high weight"]],
         raised   |-> "none"]

\* The rows of one run as the list of frames scrape_jobs_from_sources returns:
\* one frame, or two non-empty frames.
FramesOf(kinds) ==
    UNION { { <<rows>> } \cup
            { <<SubSeq(rows, 1, k), SubSeq(rows, k + 1, Len(rows))>> : k \in 1..(Len(rows) - 1) } :
            rows \in UNION { [1..n -> kinds] : n \in 1..MaxJobs } }

FrameLists == FramesOf(RowKinds)

\* The same for sites that leave cells out.
SparseFrameLists == FramesOf(SparseRowKinds)

\* pd.concat(frames, ignore_index=True)
RECURSIVE Concat(_)
Concat(fs) == IF Len(fs) = 0 THEN << >> ELSE fs[1] \o Concat(Tail(fs))

\* drop_duplicates(subset=["job_url"]): the first row of each job_url is kept;
\* reset_index(drop=True): the kept rows are numbered 0, 1, ...
RECURSIVE KeepFirst(_, _)
KeepFirst(rows, seen) ==
    IF Len(rows) = 0 THEN << >>
    ELSE IF rows[1].job_url \in seen THEN KeepFirst(Tail(rows), seen)
    ELSE <<rows[1]>> \o KeepFirst(Tail(rows), seen \cup {rows[1].job_url})

\* drop_duplicates(subset=["job_url"], keep="last")
DropDuplicatesKeepLast(rows) ==
    LET kept == SelectSeq([i \in 1..Len(rows) |-> [pos |-> i, row |-> rows[i]]],
                          LAMBDA e : \A j \in (e.pos + 1)..Len(rows) :
                                        rows[j].job_url # e.row.job_url)
    IN  [i \in 1..Len(kept) |-> [index |-> i - 1, job_url |-> kept[i].row.job_url,
                                 title |-> kept[i].row.title]]

DropDuplicates(rows) ==
    LET kept == KeepFirst(rows, {})
    IN  [i \in 1..Len(kept) |-> [index |-> i - 1, job_url |-> kept[i].job_url,
                                 title |-> kept[i].title]]

\* The text the nested score_job(row) of process_and_score_jobs builds:
\* " ".join(str(row.get(k, "")) for k in [title, company, description, location])
RowText(row) == Join(<<Str(row.title), << >>, << >>, << >>>>, Space)

\* weight * min(matches, 3) * 0.8 ** ... in _score_keywords, for a weight that
\* is no number: a str (or list) times an int is a str (a list), and that times
\* the float raises TypeError; so the keyword loop raises at the first matched
\* keyword of such a weight.
ScoreKeywordsRaises(text, keywords) ==
    \E i \in DOMAIN keywords :
        ~IsNumeric(keywords[i]) /\ FindAllCount(Lower(keywords[i].keyword), text) > 0

\* compute_score(text, keywords, bonus_remote, malus_senior) for every policy and
\* row kind, with the defaults of scoring_config.get: the score returned, or the
\* exception raised.
RowScore ==
    [k \in ConfigPolicies \cup {NanPolicy} |->
        [t \in TitleValues |->
            IF ScoreKeywordsRaises(Lower(RowText([title |-> t])), k)
            THEN [raised |-> "TypeError", score |-> 0]
            ELSE [raised |-> "none",
                  score  |-> compute_score(RowText([title |-> t]), k, 2, 3, << >>, << >>)]]]

\* jobs_df["score"] = jobs_df.apply(score_job, axis=1), when no row raises
ApplyScore(rows, keywords) ==
    [i \in 1..Len(rows) |-> [index |-> rows[i].index, job_url |-> rows[i].job_url,
                             title |-> rows[i].title,
                             score |-> RowScore[keywords][rows[i].title].score]]

\* sort_values("score") with the default ascending=True
SortValuesAscending(rows) ==
    { [i \in 1..Len(rows) |-> rows[f[i]]] :
        f \in { g \in [1..Len(rows) -> 1..Len(rows)] :
                  /\ \A i, j \in 1..Len(rows) : i # j => g[i] # g[j]
                  /\ \A i \in 1..(Len(rows) - 1) : rows[g[i]].score <= rows[g[i + 1]].score } }

\* sort_values("score", ascending=False) with the default kind="quicksort", which
\* is not a stable sort: every descending arrangement of the rows is a possible
\* outcome.
SortValues(rows) ==
    { [i \in 1..Len(rows) |-> rows[f[i]]] :
        f \in { g \in [1..Len(rows) -> 1..Len(rows)] :
                  /\ \A i, j \in 1..Len(rows) : i # j => g[i] # g[j]
                  /\ \A i \in 1..(Len(rows) - 1) : rows[g[i]].score >= rows[g[i + 1]].score } }

\* jobs_df[jobs_df["score"] >= min_score]
RECURSIVE SelectMinScore(_, _)
SelectMinScore(rows, min_score) ==
    IF Len(rows) = 0 THEN << >>
    ELSE (IF rows[1].score >= min_score THEN <<rows[1]>> ELSE << >>)
         \o SelectMinScore(Tail(rows), min_score)

\* DataFrame.head(n): the first n rows; for negative n, all rows but the last -n.
DataFrameHead(rows, n) ==
    IF n >= 0 THEN SubSeq(rows, 1, Min(n, Len(rows)))
    ELSE SubSeq(rows, 1, Max(0, Len(rows) + n))

(***************************************************************************)
(* State                                                                   *)
(***************************************************************************)
VARIABLES
    self,       \* the JobScorer in use: its three vocabulary tables
    args,       \* the arguments of the score_job calls of this behaviour
    results,    \* the ScoringResults returned so far, in call order
    pc,         \* the step JobSpyApp.run is at
    frames,     \* what scrape_jobs_from_sources returned
    config,     \* config["scoring"]: min_score, top_k
    jobs_df,    \* self.jobs_df
    top_jobs,   \* the result of filter_top_jobs
    letters,    \* the rows generate_cover_letters was called with, if it was
    raised,     \* the exception run has raised, if any
    scoring_pass, \* the postings one scorer is to score, and the order it took them in
    analysis,   \* a call of analyze_keywords_performance: arguments, value returned
    generation, \* a call of generate_cover_letter: environment, arguments, outcome
    validator   \* a ConfigValidator and what validate_all met and returned

vars == <<self, args, results, pc, frames, config, jobs_df, top_jobs, letters, raised,
          scoring_pass, analysis, generation, validator>>

scoring_vars == <<self, args, results>>
run_vars == <<pc, frames, config, jobs_df, top_jobs, letters, raised>>
tool_vars == <<scoring_pass, analysis, generation, validator>>

NotCalled == "not called"

\* No run of JobSpyApp is in progress.
NoRun ==
    /\ pc = "idle"
    /\ frames = << >>
    /\ config = [min_score |-> -999, top_k |-> 25, keywords |-> IntWeights(test_keywords)]
    /\ jobs_df = << >>
    /\ top_jobs = << >>
    /\ letters = NotCalled
    /\ raised = "none"

\* Neither the keyword analysis, nor generate_cover_letter, nor the
\* ConfigValidator is in use.
Idle == [state |-> "idle"]

NoTools ==
    /\ scoring_pass = Idle
    /\ analysis = Idle
    /\ generation = Idle
    /\ validator = Idle

\* No score_job call has been made.
NoCalls ==
    /\ self = NewJobScorer
    /\ args = ScenarioArgs
    /\ results = << >>

(***************************************************************************)
(* Scoring: calls of score_job with one set of arguments                   *)
(***************************************************************************)
Init ==
    /\ self = NewJobScorer
    /\ args \in RuleArgs \cup KwArgs \cup EdgeArgs \cup LengthArgs \cup SeniorLeadArgs
                \cup {ScenarioArgs}
    /\ results = << >>
    /\ NoRun
    /\ NoTools

\* score_job consuming its vocabulary: the first negative keyword is dropped
\* from the scorer's table after the call.
ScoreJobCallMutating ==
    /\ pc = "idle"
    /\ Len(results) < 2
    /\ results' = Append(results,
                         score_job(self, args.text, args.keywords, args.bonus_remote,
                                   args.malus_senior, args.location, args.job_type))
    /\ self' = [self EXCEPT !.negative_keywords = Tail(@)]
    /\ UNCHANGED args
    /\ UNCHANGED run_vars
    /\ UNCHANGED tool_vars

\* scorer.score_job(...) on the scorer in use; the method assigns no attribute.
ScoreJobCall ==
    /\ pc = "idle"
    /\ Len(results) < 2
    /\ results' = Append(results,
                         score_job(self, args.text, args.keywords, args.bonus_remote,
                                   args.malus_senior, args.location, args.job_type))
    /\ UNCHANGED <<self, args>>
    /\ UNCHANGED run_vars
    /\ UNCHANGED tool_vars

\* compute_detailed_score(...): a fresh JobScorer, then score_job on it.
ComputeDetailedScore ==
    /\ pc = "idle"
    /\ Len(results) < 2
    /\ self' = NewJobScorer
    /\ results' = Append(results,
                         score_job(self', args.text, args.keywords, args.bonus_remote,
                                   args.malus_senior, args.location, args.job_type))
    /\ UNCHANGED args
    /\ UNCHANGED run_vars
    /\ UNCHANGED tool_vars

Next == ScoreJobCall \/ ComputeDetailedScore

Spec == Init /\ [][Next]_vars

(***************************************************************************)
(* JobSpyApp.run: process and score, filter, generate                      *)
(***************************************************************************)
InitRun ==
    /\ NoCalls
    /\ NoTools
    /\ pc = "scraped"
    /\ \/ /\ frames \in FrameLists
          /\ config \in [min_score : MinScores, top_k : TopKs, keywords : ConfigPolicies]
       \/ /\ frames \in SparseFrameLists
          /\ config \in [min_score : {-999, 4}, top_k : {25},
                          keywords : {IntWeights(test_keywords), NanPolicy}]
    /\ jobs_df = << >>
    /\ top_jobs = << >>
    /\ letters = NotCalled
    /\ raised = "none"

\* Step 2 of run: self.jobs_df = self.process_and_score_jobs(frames).  An
\* exception of score_job(row) leaves apply and process_and_score_jobs; run logs
\* it and raises it again.
ProcessAndScoreJobs ==
    /\ pc = "scraped"
    /\ LET rows == DropDuplicates(Concat(frames))
       IN  IF \E i \in DOMAIN rows : RowScore[config.keywords][rows[i].title].raised # "none"
           THEN /\ pc' = "failed"
                /\ raised' = "TypeError"
                /\ UNCHANGED jobs_df
           ELSE /\ jobs_df' \in SortValues(ApplyScore(rows, config.keywords))
                /\ pc' = "scored"
                /\ UNCHANGED raised
    /\ UNCHANGED <<frames, config, top_jobs, letters>>
    /\ UNCHANGED scoring_vars
    /\ UNCHANGED tool_vars

\* Step 4 of run: top_jobs = self.filter_top_jobs(self.jobs_df)
FilterTopJobs ==
    /\ pc = "scored"
    /\ top_jobs' = DataFrameHead(SelectMinScore(jobs_df, config.min_score), config.top_k)
    /\ pc' = "filtered"
    /\ UNCHANGED <<frames, config, jobs_df, letters, raised>>
    /\ UNCHANGED scoring_vars
    /\ UNCHANGED tool_vars

\* Step 5 of run, len(top_jobs) > 0: self.generate_cover_letters(top_jobs)
GenerateCoverLetters ==
    /\ pc = "filtered"
    /\ Len(top_jobs) > 0
    /\ letters' = top_jobs
    /\ pc' = "done"
    /\ UNCHANGED <<frames, config, jobs_df, top_jobs, raised>>
    /\ UNCHANGED scoring_vars
    /\ UNCHANGED tool_vars

\* Step 5 of run, otherwise: the warning "No jobs passed filtering criteria"
NoJobsPassed ==
    /\ pc = "filtered"
    /\ Len(top_jobs) = 0
    /\ pc' = "done"
    /\ UNCHANGED <<frames, config, jobs_df, top_jobs, letters, raised>>
    /\ UNCHANGED scoring_vars
    /\ UNCHANGED tool_vars

NextRun == ProcessAndScoreJobs \/ FilterTopJobs \/ GenerateCoverLetters \/ NoJobsPassed

SpecRun == InitRun /\ [][NextRun]_vars

(***************************************************************************)
(* A scoring pass: one JobScorer and one policy, several postings          *)
(***************************************************************************)

\* Postings of a pass: text, location, job_type.
PassPostings ==
    { [text |-> <<"S", "e", "n", "i", "o", "r", " ", "P", "y", "t", "h", "o", "n">>,
       location |-> << >>, job_type |-> << >>],
      [text |-> <<"T", "e", "a", "m", " ", "L", "e", "a", "d", " ", "V", "o", "l", "l", "z", "e", "i", "t">>,
       location |-> <<"M", "a", "i", "n", "z">>, job_type |-> <<"F", "u", "l", "l", "t", "i", "m", "e">>],
      [text |-> <<"L", "i", "n", "u", "x", " ", "R", "e", "m", "o", "t", "e">>,
       location |-> << >>, job_type |-> << >>],
      [text |-> <<"s", "e", "n", "i", "o", "r", " ", "S", "e", "n", "i", "o", "r", " ", "S", "Q", "L">>,
       location |-> <<"R", "e", "m", "o", "t", "e">>, job_type |-> << >>] }

\* The postings of one pass: up to MaxJobs of them, one after the other.
InitPass ==
    /\ NoCalls
    /\ NoRun
    /\ scoring_pass \in [state : {"scoring"},
                         postings : UNION { [1..n -> PassPostings] : n \in 1..MaxJobs },
                         keywords : {test_keywords}, order : {<< >>}]
    /\ analysis = Idle
    /\ generation = Idle
    /\ validator = Idle

\* scorer.score_job(...) on a posting of the pass not scored yet, whichever the
\* caller takes next; the first negative keyword is dropped from the scorer's
\* table after the call.
ScorePostingMutating ==
    /\ scoring_pass.state = "scoring"
    /\ \E i \in DOMAIN scoring_pass.postings :
          /\ \A k \in DOMAIN scoring_pass.order : scoring_pass.order[k] # i
          /\ results' = Append(results,
                               score_job(self, scoring_pass.postings[i].text,
                                         scoring_pass.keywords, 2, 3,
                                         scoring_pass.postings[i].location,
                                         scoring_pass.postings[i].job_type))
          /\ scoring_pass' = [scoring_pass EXCEPT !.order = Append(@, i)]
    /\ self' = [self EXCEPT !.negative_keywords = Tail(@)]
    /\ UNCHANGED args
    /\ UNCHANGED run_vars
    /\ UNCHANGED <<analysis, generation, validator>>

\* scorer.score_job(...) on a posting of the pass not scored yet, whichever the
\* caller takes next; the method assigns no attribute of the scorer and no entry
\* of the policy.
ScorePosting ==
    /\ scoring_pass.state = "scoring"
    /\ \E i \in DOMAIN scoring_pass.postings :
          /\ \A k \in DOMAIN scoring_pass.order : scoring_pass.order[k] # i
          /\ results' = Append(results,
                               score_job(self, scoring_pass.postings[i].text,
                                         scoring_pass.keywords, 2, 3,
                                         scoring_pass.postings[i].location,
                                         scoring_pass.postings[i].job_type))
          /\ scoring_pass' = [scoring_pass EXCEPT !.order = Append(@, i)]
    /\ UNCHANGED <<self, args>>
    /\ UNCHANGED run_vars
    /\ UNCHANGED <<analysis, generation, validator>>

NextPass == ScorePosting

SpecPass == InitPass /\ [][NextPass]_vars


(***************************************************************************)
(* analyze_keywords_performance (scoring.py)                               *)
(***************************************************************************)

RECURSIVE Gcd(_, _)
Gcd(a, b) == IF b = 0 THEN a ELSE Gcd(b, a % b)

\* a / b of two ints, b # 0: Python's true division gives the float nearest to
\* the quotient; the quotient is held as the fraction in lowest terms (of the
\* small numbers used here no two quotients share a nearest float).
TrueDiv(a, b) ==
    LET abs(x) == IF x < 0 THEN -x ELSE x
        g == Gcd(abs(a), abs(b))
        sign == IF b < 0 THEN -1 ELSE 1
    IN  [num |-> sign * (a \div g), den |-> abs(b) \div g]

\* The int 0 the guards of analyze_keywords_performance yield (0 == 0.0).
Zero == [num |-> 0, den |-> 1]

RECURSIVE SumSeq(_)
SumSeq(ns) == IF Len(ns) = 0 THEN 0 ELSE ns[1] + SumSeq(Tail(ns))

\* analyze_keywords_performance(jobs_df, keywords): the statistics of every
\* keyword, in the order of the policy.
analyze_keywords_performance(df, keywords) ==
    [i \in DOMAIN keywords |->
        LET keyword == keywords[i].keyword
            weight  == keywords[i].weight
            job_matches ==
                [j \in DOMAIN df |-> FindAllCount(Lower(keyword), Lower(RowText(df[j])))]
            matches == Cardinality({ j \in DOMAIN df : job_matches[j] > 0 })
            total_score_contribution == weight * SumSeq(job_matches)
        IN  [keyword |-> keyword,
             weight |-> weight,
             jobs_matched |-> matches,
             match_rate |-> IF Len(df) > 0 THEN TrueDiv(matches, Len(df)) ELSE Zero,
             total_score_contribution |-> total_score_contribution,
             efficiency |-> IF weight > 0 THEN TrueDiv(total_score_contribution, weight)
                            ELSE Zero]]

\* Titles of the postings of an analysed corpus: "senior" twice and "SQL"
\* once, "Python" once, and "sqlite", which holds no keyword as a word.
AnalysisTitles ==
    { <<"s", "e", "n", "i", "o", "r", " ", "S", "Q", "L", " ", "s", "e", "n", "i", "o", "r">>,
      <<"P", "y", "t", "h", "o", "n">>,
      <<"s", "q", "l", "i", "t", "e">> }

\* The corpora analysed: up to MaxJobs postings, the empty corpus included.
InitAnalysis ==
    /\ NoCalls
    /\ NoRun
    /\ analysis \in [state : {"called"},
                      jobs_df : UNION { [1..n -> [title : AnalysisTitles]] : n \in 0..MaxJobs },
                      keywords : KwPolicies,
                      keyword_stats : {<< >>}]
    /\ scoring_pass = Idle
    /\ generation = Idle
    /\ validator = Idle

\* keyword_stats = analyze_keywords_performance(jobs_df, keywords)
AnalyzeKeywordsPerformance ==
    /\ analysis.state = "called"
    /\ analysis' = [analysis EXCEPT
                       !.state = "returned",
                       !.keyword_stats =
                           analyze_keywords_performance(analysis.jobs_df, analysis.keywords)]
    /\ UNCHANGED <<scoring_pass, generation, validator>>
    /\ UNCHANGED scoring_vars
    /\ UNCHANGED run_vars

NextAnalysis == AnalyzeKeywordsPerformance

SpecAnalysis == InitAnalysis /\ [][NextAnalysis]_vars

(***************************************************************************)
(* generate_cover_letter (llm.py)                                          *)
(* A call that returns yields [raised |-> "none", value |-> ...], one that *)
(* raises yields [raised |-> the exception class, value |-> << >>].        *)
(***************************************************************************)

Returns(value) == [raised |-> "none", value |-> value]
Raises(exception) == [raised |-> exception, value |-> << >>]

\* The code fence that _post_process_response removes: three grave accents
CodeFence == <<"<grave accent>", "<grave accent>", "<grave accent>">>

\* str.strip(): the whitespace at both ends removed
RECURSIVE Strip(_)
Strip(s) ==
    LET whitespace == {" ", "\n", "\t", "\r"}
    IN  IF Len(s) > 0 /\ s[1] \in whitespace THEN Strip(Tail(s))
        ELSE IF Len(s) > 0 /\ s[Len(s)] \in whitespace THEN Strip(SubSeq(s, 1, Len(s) - 1))
        ELSE s

\* str.startswith(prefix)
StartsWith(s, prefix) == Len(prefix) <= Len(s) /\ SubSeq(s, 1, Len(prefix)) = prefix

\* str.replace(old, new) for a non-empty old: the occurrences from left to
\* right, not overlapping.
RECURSIVE Replace(_, _, _)
Replace(s, old, new) ==
    IF Len(s) < Len(old) THEN s
    ELSE IF OccursAt(old, s, 1)
         THEN new \o Replace(SubSeq(s, Len(old) + 1, Len(s)), old, new)
         ELSE <<s[1]>> \o Replace(Tail(s), old, new)

\* dict.get(key, default)
Get(dict, key, default) == IF key \in DOMAIN dict THEN dict[key] ELSE default

\* CoverLetterGenerator(): __init__ with api_key=None
NewCoverLetterGenerator(env) ==
    IF ~env.OPENAI_AVAILABLE THEN Raises("LLMError")
    ELSE IF Len(env.OPENAI_API_KEY) = 0 THEN Raises("LLMError")
    ELSE Returns(env.OPENAI_API_KEY)

\* _prepare_context: job.get(key, "").strip() for the keys the templates below
\* use; a value that is no str (nan) has no strip().  The other entries of the
\* context are configuration values and texts shorter than their length limits.
prepare_context(job) ==
    IF \E key \in {"job_title", "company"} : Get(job, key, << >>) = NaN
    THEN Raises("AttributeError")
    ELSE Returns([job_title |-> Strip(Get(job, "job_title", << >>)),
                  company   |-> Strip(Get(job, "company", << >>))])

\* placeholder = "{{" + key + "}}"
Placeholder(key) ==
    IF key = "job_title"
    THEN <<"{", "{", "j", "o", "b", "_", "t", "i", "t", "l", "e", "}", "}">>
    ELSE <<"{", "{", "c", "o", "m", "p", "a", "n", "y", "}", "}">>

\* _fill_prompt_template: the placeholders replaced in the order of the context
fill_prompt_template(template, context) ==
    Replace(Replace(template, Placeholder("job_title"), context.job_title), Placeholder("company"), context.company)

\* _validate_inputs
validate_inputs(prompt, cfg_llm) ==
    IF Len(Strip(prompt)) = 0 THEN Raises("LLMError")
    ELSE IF Len(Get(cfg_llm, "model", <<"g", "p", "t", "-", "4", "o", "-", "m", "i", "n", "i">>)) = 0
         THEN Raises("LLMError")
    ELSE Returns(<< >>)

\* _call_llm: whatever client.chat.completions.create raises becomes an
\* LLMError, and so does the AttributeError of None.strip() when the message
\* has no content.
call_llm(api) ==
    IF api.kind = "raises" THEN Raises("LLMError")
    ELSE IF api.kind = "no content" THEN Raises("LLMError")
    ELSE Returns(Strip(api.content))

\* for prefix in unwanted_prefixes: if response.startswith(prefix):
\*     response = response[len(prefix):].strip()
RECURSIVE RemovePrefixes(_, _)
RemovePrefixes(response, prefixes) ==
    IF Len(prefixes) = 0 THEN response
    ELSE IF StartsWith(response, prefixes[1])
         THEN RemovePrefixes(Strip(SubSeq(response, Len(prefixes[1]) + 1, Len(response))),
                             Tail(prefixes))
         ELSE RemovePrefixes(response, Tail(prefixes))

\* _post_process_response; response[-1] of an empty str raises IndexError
post_process_response(response) ==
    IF Len(response) = 0 THEN Raises("LLMError")
    ELSE LET unwanted_prefixes ==
                 << <<"H", "i", "e", "r", " ", "i", "s", "t", " ">>,
                    <<"H", "i", "e", "r", " ", "i", "s", "t", " ", "d", "a", "s", " ">>,
                    <<"D", "a", "s", " ", "i", "s", "t", " ">>,
                    <<"S", "e", "h", "r", " ", "g", "e", "r", "n", "e", ":">> >>
             cleaned == RemovePrefixes(Strip(Replace(response, CodeFence, << >>)),
                                       unwanted_prefixes)
         IN  IF Len(cleaned) > 0 /\ cleaned[Len(cleaned)] = "." THEN Returns(cleaned)
             ELSE IF Len(cleaned) = 0 THEN Raises("IndexError")
             ELSE IF cleaned[Len(cleaned)] \in {"!", "?"} THEN Returns(cleaned)
             ELSE Returns(cleaned \o <<".">>)

\* CoverLetterGenerator.generate: every exception of the steps is logged and
\* replaced by an LLMError.
generate(env, cfg_llm, prompt_template, job) ==
    LET context == prepare_context(job)
    IN  IF context.raised # "none" THEN Raises("LLMError")
        ELSE LET filled_prompt == fill_prompt_template(prompt_template, context.value)
             IN  IF validate_inputs(filled_prompt, cfg_llm).raised # "none"
                 THEN Raises("LLMError")
                 ELSE LET response == call_llm(env.api)
                      IN  IF response.raised # "none" THEN Raises("LLMError")
                          ELSE IF post_process_response(response.value).raised # "none"
                               THEN Raises("LLMError")
                          ELSE post_process_response(response.value)

\* _generate_fallback_letter: the f-string around the title and the company
\* (the fixed parts are held as whole strings).
generate_fallback_letter(job) ==
    LET company == Str(Get(job, "company",
                           <<"I", "h", "r", " ", "U", "n", "t", "e", "r", "n", "e", "h", "m", "e", "n">>))
        title   == Str(Get(job, "job_title", <<"die ausgeschriebene Position">>))
    IN  <<"Betreff: Bewerbung als ">> \o title
        \o <<"\n\nSehr geehrte Damen und Herren,\n\nhiermit bewerbe ich mich um die Position als ">>
        \o title \o <<" bei ">> \o company
        \o <<".\n\nAls dualer Informatikstudent im 5. Semester bringe ich praktische Erfahrung in der IT-Branche mit und suche einen neuen Praxispartner ab Oktober 2025.\n\nGerne stelle ich Ihnen meine Qualifikationen in einem persönlichen Gespräch vor.\n\nMit freundlichen Grüßen\nJonas Weirauch\n\n---\nHINWEIS: Dies ist ein Fallback-Anschreiben. Das LLM-System war nicht verfügbar.\n">>

\* generate_cover_letter with the generator built before the try block
generate_cover_letter_unguarded_init(env, cfg_llm, prompt_template, job) ==
    IF NewCoverLetterGenerator(env).raised # "none" THEN NewCoverLetterGenerator(env)
    ELSE IF generate(env, cfg_llm, prompt_template, job).raised # "none"
         THEN Returns(generate_fallback_letter(job))
    ELSE generate(env, cfg_llm, prompt_template, job)

\* generate_cover_letter: try: CoverLetterGenerator().generate(...)
\* except Exception: the fallback letter
generate_cover_letter(env, cfg_llm, prompt_template, job) ==
    IF NewCoverLetterGenerator(env).raised # "none" THEN Returns(generate_fallback_letter(job))
    ELSE IF generate(env, cfg_llm, prompt_template, job).raised # "none"
         THEN Returns(generate_fallback_letter(job))
    ELSE generate(env, cfg_llm, prompt_template, job)

\* The library is installed or not; OPENAI_API_KEY is set or it is unset/empty;
\* the API call of the generation raises, answers without content, or answers
\* with one of eight texts.
Environments ==
    [OPENAI_AVAILABLE : BOOLEAN,
     OPENAI_API_KEY : { << >>, <<"s", "k", "-", "1">> },
     api : { [kind |-> "raises", content |-> << >>],
             [kind |-> "no content", content |-> << >>] }
           \cup [kind : {"content"},
                 content :
                   { << >>,
                     <<" ", "\n">>,
                     CodeFence,
                     <<"S", "e", "h", "r", " ", "g", "e", "r", "n", "e", ":">>,
                     <<"S", "e", "h", "r", " ", "g", "e", "r", "n", "e", ":", " ", "B", "r", "i", "e", "f">>,
                     CodeFence \o <<"H", "i", "e", "r", " ", "i", "s", "t", " ", "B", "r", "i", "e", "f", ".">> \o CodeFence \o <<"\n">>,
                     <<"B", "r", "i", "e", "f", "!">>,
                     <<" ", "B", "r", "i", "e", "f">> }]]

\* The prompt template: blank, the company placeholder alone, a text with both
\* placeholders
PromptTemplates ==
    { <<" ">>,
      Placeholder("company"),
      <<"B", "r", "i", "e", "f", " ", "a", "n", " ">> \o Placeholder("company") \o <<":", " ">> \o Placeholder("job_title") }

\* The job dicts: as generate_cover_letters builds them from a row (all keys,
\* the company a str, the empty str or nan), and one of another caller
\* without the keys.
Jobs ==
    { [job_title |-> <<"D", "e", "v">>, company |-> <<"A", "C", "M", "E">>],
      [job_title |-> <<"D", "e", "v">>, company |-> << >>],
      [job_title |-> <<"D", "e", "v">>, company |-> NaN],
      [source |-> <<"t", "e", "s", "t">>] }

\* The arguments of one call; cfg_llm names a model, an empty model, or none.
InitGeneration ==
    /\ NoCalls
    /\ NoRun
    /\ generation \in [state : {"called"}, env : Environments,
                       cfg_llm : { [model |-> <<"g", "p", "t", "-", "4", "o">>],
                                   [model |-> << >>], [tone |-> <<"x">>] },
                       prompt_template : PromptTemplates, job : Jobs,
                       outcome : {Returns(<< >>)}]
    /\ scoring_pass = Idle
    /\ analysis = Idle
    /\ validator = Idle

\* letter_text = generate_cover_letter(cfg_llm, prompt_template, job, ...)
GenerateCoverLetter ==
    /\ generation.state = "called"
    /\ generation' = [generation EXCEPT
                         !.state = "returned",
                         !.outcome = generate_cover_letter(generation.env, generation.cfg_llm,
                                                           generation.prompt_template,
                                                           generation.job)]
    /\ UNCHANGED <<scoring_pass, analysis, validator>>
    /\ UNCHANGED scoring_vars
    /\ UNCHANGED run_vars

NextGeneration == GenerateCoverLetter

SpecGeneration == InitGeneration /\ [][NextGeneration]_vars

(***************************************************************************)
(* ConfigValidator.validate_all (validate.py)                              *)
(* A message of self.errors / self.warnings is held as [keyword, message], *)
(* the keyword empty when the message names none.  A step yields the flag  *)
(* it returns, the messages it appends and the exception it raises.        *)
(***************************************************************************)

Message(text) == [keyword |-> << >>, message |-> text]

StepResult(errors, warnings) ==
    [valid |-> Len(errors) = 0, errors |-> errors, warnings |-> warnings, raised |-> "none"]

\* What yaml.safe_load yields for a section without content ("scoring:")
None == [type |-> "NoneType"]

\* The messages of a list of conditions, in order: one for each that holds
RECURSIVE Messages(_)
Messages(checks) ==
    IF Len(checks) = 0 THEN << >>
    ELSE (IF checks[1][1] THEN <<Message(checks[1][2])>> ELSE << >>) \o Messages(Tail(checks))

Elements(seq) == { seq[i] : i \in DOMAIN seq }

\* load_config: the file is missing, empty, no YAML, or it loads
load_config(file) ==
    CASE file = "missing"    -> StepResult(<<Message("Configuration file not found")>>, << >>)
      [] file = "empty"      -> StepResult(<<Message("Configuration file is empty or invalid")>>, << >>)
      [] file = "yaml error" -> StepResult(<<Message("YAML parsing error")>>, << >>)
      [] OTHER               -> StepResult(<< >>, << >>)

\* validate_search_config, for a search section that is a mapping with a list
\* of sources
validate_search_config(search) ==
    LET sources == Get(search, "sources", << >>)
        valid_sources ==
            {"linkedin", "indeed", "zip_recruiter", "glassdoor", "google", "bayt", "bdjobs"}
        conflicting == Get(search, "job_type", "") # ""
    IN  StepResult(
            Messages(<< <<Get(search, "query", "") = "", "Search.query is required">>,
                        <<Len(sources) = 0, "Search.sources is required">>,
                        <<Elements(sources) \ valid_sources # {}, "Invalid job sources">>,
                        <<"hours_old" \in DOMAIN search /\
                              (search.hours_old < 1 \/ search.hours_old > 8760),
                          "Search.hours_old must be integer between 1 and 8760">> >>),
            Messages(<< <<"hours_old" \in DOMAIN search /\ conflicting /\
                              Elements(sources) \cap {"indeed", "glassdoor", "linkedin"} # {},
                          "hours_old conflicts on Indeed/LinkedIn/Glassdoor">>,
                        <<"google" \in Elements(sources) /\
                              Get(search, "google_search_term", "") = "",
                          "Google Jobs requires google_search_term for best results">>,
                        <<Elements(sources) \cap {"indeed", "glassdoor"} # {} /\
                              Get(search, "country_indeed", "") = "",
                          "country_indeed recommended for Indeed/Glassdoor">> >>))

\* validate_scoring_config on the section as loaded: None has no get()
validate_scoring_section(scoring) ==
    IF scoring = None
    THEN [valid |-> FALSE, errors |-> << >>, warnings |-> << >>, raised |-> "AttributeError"]
    ELSE validate_scoring_config(scoring)

\* validate_llm_config
validate_llm_config(llm) ==
    LET valid_models ==
            {"gpt-4o-mini", "gpt-4o", "gpt-4", "gpt-4-turbo", "gpt-3.5-turbo", "gpt-3.5-turbo-16k"}
    IN  StepResult(
            Messages(<< <<"max_tokens" \in DOMAIN llm /\
                              (llm.max_tokens < 50 \/ llm.max_tokens > 4000),
                          "LLM.max_tokens must be number between 50 and 4000">> >>),
            Messages(<< <<Get(llm, "model", "gpt-4o-mini") \notin valid_models,
                          "Unknown model, may not work">>,
                        <<Get(llm, "dual_study_context", "") = "",
                          "dual_study_context not set - letters will be generic">> >>))

\* validate_file_paths: warnings only, and always True
validate_file_paths(files, existing) ==
    LET Check(field, description) ==
            IF Get(files, field, "") = "" THEN <<TRUE, description \o " path not set">>
            ELSE <<Get(files, field, "") \notin existing, description \o " file not found">>
    IN  StepResult(<< >>,
                   Messages(<< Check("resume_path", "Resume/CV file"),
                               Check("template_letter_path", "Cover letter template") >>))

\* validate_output_config: out_dir.mkdir(exist_ok=True) works or raises
validate_output_config(mkdir_raises) ==
    StepResult(Messages(<< <<mkdir_raises, "Cannot create output directory">> >>), << >>)

\* validate_environment
validate_environment(env) ==
    StepResult(
        Messages(<< <<env.OPENAI_API_KEY = << >>, "OPENAI_API_KEY not set in environment">>,
                    <<env.missing_modules # {}, "Missing required modules">> >>),
        Messages(<< <<env.OPENAI_API_KEY # << >> /\
                          ~StartsWith(env.OPENAI_API_KEY, <<"s", "k", "-">>),
                      "OPENAI_API_KEY doesn't look like a valid OpenAI key">> >>))

validation_steps ==
    << "validate_search_config", "validate_scoring_config", "validate_llm_config",
       "validate_file_paths", "validate_output_config", "validate_environment" >>

\* step() of a validator v
Step(name, v) ==
    CASE name = "validate_search_config"  -> validate_search_config(v.config.search)
      [] name = "validate_scoring_config" -> validate_scoring_section(v.config.scoring)
      [] name = "validate_llm_config"     -> validate_llm_config(v.config.llm)
      [] name = "validate_file_paths"     -> validate_file_paths(v.config.files, v.existing)
      [] name = "validate_output_config"  -> validate_output_config(v.mkdir_raises)
      [] OTHER                            -> validate_environment(v.env)

\* for step in steps: if not step(): all_valid = False.  An exception of a
\* step ends the loop and leaves validate_all.  Each step that returned is
\* noted in v.steps with its flag and the number of errors it appended.
RECURSIVE RunSteps(_, _, _)
RunSteps(v, steps, i) ==
    IF i > Len(steps) THEN v
    ELSE LET result == Step(steps[i], v)
         IN  IF result.raised # "none"
             THEN [v EXCEPT !.result = [raised |-> result.raised, valid |-> FALSE]]
             ELSE RunSteps([v EXCEPT !.errors = @ \o result.errors,
                                     !.warnings = @ \o result.warnings,
                                     !.steps = Append(@, [name |-> steps[i], valid |-> result.valid,
                                                          errors |-> Len(result.errors)]),
                                     !.result.valid = @ /\ result.valid],
                           steps, i + 1)

\* validate_all
validate_all(v) ==
    LET cleared == [v EXCEPT !.errors = << >>, !.warnings = << >>]
        loaded  == load_config(v.file)
    IN  IF ~loaded.valid
        THEN [cleared EXCEPT !.errors = loaded.errors,
                             !.result = [raised |-> "none", valid |-> FALSE]]
        ELSE RunSteps([cleared EXCEPT !.result = [raised |-> "none", valid |-> TRUE]],
                      validation_steps, 1)

\* The config files, the file system and the environment of one validation: a
\* file that does not load, or one that loads with
\*   search:  with and without query and sources, a source jobspy does not
\*            know, hours_old absent, in range and out of range;
\*   scoring: a section without content, or a mapping with the policies of the
\*            self-test, a weight beyond 20 or no keywords;
\*   llm:     a known and an unknown model, max_tokens in and out of range;
\*   files:   resume_path set or not.
Validators ==
    [state : {"called"},
     file : {"missing", "empty", "yaml error"},
     config : {[search |-> None, scoring |-> None, llm |-> None, files |-> None]},
     existing : {{}}, mkdir_raises : {FALSE},
     env : {[OPENAI_API_KEY |-> << >>, missing_modules |-> {}]},
     errors : {<<Message("stale")>>}, warnings : {<< >>}, steps : {<< >>},
     result : {[raised |-> "none", valid |-> FALSE]}]
        \cup
    [state : {"called"},
     file : {"loaded"},
     config :
        [search :
            [query : {"", "Werkstudent"},
             sources : { << >>, <<"indeed">>, <<"google", "monster">> },
             job_type : {"fulltime"}]
                \cup [query : {"", "Werkstudent"},
                      sources : { << >>, <<"indeed">>, <<"google", "monster">> },
                      job_type : {"fulltime"},
                      hours_old : {0, 24}],
         scoring :
            {None} \cup
            [keywords : ConfigPolicies \cup
                        { IntWeights(<< [keyword |-> <<"L", "i", "n", "u", "x">>,
                                         weight |-> 25] >>),
                          << >> },
             min_score : {4, 60}, top_k : {25}],
         llm : { [model |-> "gpt-4o-mini", dual_study_context |-> "dual"],
                 [model |-> "llama-3", max_tokens |-> 10],
                 [max_tokens |-> 1200] },
         files : [resume_path : {"", "cv.txt"}, template_letter_path : {"letter.txt"}]],
     existing : { {}, {"cv.txt", "letter.txt"} },
     mkdir_raises : BOOLEAN,
     env : [OPENAI_API_KEY : { << >>, <<"s", "k", "-", "1">>, <<"a", "b", "c">> },
            missing_modules : { {}, {"jobspy"} }],
     errors : {<< >>}, warnings : {<< >>}, steps : {<< >>},
     result : {[raised |-> "none", valid |-> FALSE]}]

InitValidator ==
    /\ NoCalls
    /\ NoRun
    /\ validator \in Validators
    /\ scoring_pass = Idle
    /\ analysis = Idle
    /\ generation = Idle

\* valid, errors, warnings = validator.validate_all()
ValidateAll ==
    /\ validator.state = "called"
    /\ validator' = [validate_all(validator) EXCEPT !.state = "done"]
    /\ UNCHANGED <<scoring_pass, analysis, generation>>
    /\ UNCHANGED scoring_vars
    /\ UNCHANGED run_vars

NextValidator == ValidateAll

SpecValidator == InitValidator /\ [][NextValidator]_vars


(***************************************************************************)
(* Properties of the scoring (checked under Spec)                          *)
(***************************************************************************)

Scored == Len(results) > 0

\* C1: every ScoringResult returned by score_job satisfies total_score =
\* keyword_score + location_score + remote_bonus - seniority_malus - length_penalty.
C1_TotalIsSumOfParts ==
    \A i \in DOMAIN results :
        results[i].total_score =
            results[i].keyword_score + results[i].location_score + results[i].remote_bonus
            - results[i].seniority_malus - results[i].length_penalty

\* A result in which all five parts are non-zero.
C1_Witness ==
    \E i \in DOMAIN results :
        /\ results[i].keyword_score # 0
        /\ results[i].location_score # 0
        /\ results[i].remote_bonus # 0
        /\ results[i].seniority_malus # 0
        /\ results[i].length_penalty # 0

\* C2 as stated: the scenario "Werkstudent Python Data Analytics Linux SQL Remote"
\* with the test policy, bonus_remote = 3, malus_senior = 4 yields keyword_score 15,
\* remote_bonus 3, seniority_malus 0, length_penalty 0 and total_score 18.
C2_ScenarioAsStated ==
    \A i \in DOMAIN results :
        args = ScenarioArgs =>
            /\ results[i].keyword_score = 15
            /\ results[i].remote_bonus = 3
            /\ results[i].seniority_malus = 0
            /\ results[i].length_penalty = 0
            /\ results[i].total_score = 18

\* C2 amended: the same scenario yields keyword_score 15, location_score 3 (the
\* text contains "remote"), remote_bonus 3, seniority_malus 0, length_penalty 0
\* and total_score 21.
C2_ScenarioAmended ==
    \A i \in DOMAIN results :
        args = ScenarioArgs =>
            /\ results[i].keyword_score = 15
            /\ results[i].location_score = 3
            /\ results[i].remote_bonus = 3
            /\ results[i].seniority_malus = 0
            /\ results[i].length_penalty = 0
            /\ results[i].total_score = 21

C2_Witness == args = ScenarioArgs /\ Scored

\* C3: for malus_senior >= 0 the seniority_malus lies in 0 .. 2 * malus_senior,
\* however many negative terms the text holds.
C3_PenaltyCap ==
    \A i \in DOMAIN results :
        args.malus_senior >= 0 =>
            /\ results[i].seniority_malus >= 0
            /\ results[i].seniority_malus <= 2 * args.malus_senior

\* A scored text whose accumulated penalty exceeds the cap, with malus_senior > 0.
C3_Witness ==
    /\ Scored
    /\ args.malus_senior > 0
    /\ SeniorityLoop(negative_keywords, Lower(args.text), args.malus_senior, 1)
         > 2 * args.malus_senior
    /\ results[1].seniority_malus = 2 * args.malus_senior

WithWeight(keywords, i, w) ==
    [keywords EXCEPT ![i] = [keyword |-> keywords[i].keyword, weight |-> w]]

\* C8: raising the weight of one keyword that matches at least once, the text and
\* the other weights held fixed, never lowers keyword_score.
C8_WeightMonotone ==
    Len(results) = 1 =>
        \A i \in DOMAIN args.keywords :
            FindAllCount(Lower(args.keywords[i].keyword), Lower(args.text)) > 0 =>
                \A w \in (args.keywords[i].weight + 1)..MaxWeight :
                    score_keywords(Lower(args.text), WithWeight(args.keywords, i, w)).score
                        >= results[1].keyword_score

\* A scored text with a negative keyword_score, and one where a keyword occurs
\* more than once.
C8_Witness ==
    /\ Len(results) = 1
    /\ results[1].keyword_score < 0
    /\ \E i \in DOMAIN args.keywords :
          FindAllCount(Lower(args.keywords[i].keyword), Lower(args.text)) > 1

\* The exact value of sum(weight * min(n, 3) * 0.8^max(0, n-1)), times 5^8.
RECURSIVE ExactSum(_, _, _)
ExactSum(text, keywords, i) ==
    IF i > Len(keywords) THEN 0
    ELSE LET n == FindAllCount(Lower(keywords[i].keyword), text)
             k == Max(0, n - 1)
         IN  (IF n > 0 THEN keywords[i].weight * Min(n, 3) * (4^k) * (5^(8 - k)) ELSE 0)
             + ExactSum(text, keywords, i + 1)

TruncDiv(a, b) == IF a >= 0 THEN a \div b ELSE -((-a) \div b)

\* C9: keyword_score is the integer truncation of the exact sum over the matched
\* keywords of weight * min(n, 3) * 0.8^max(0, n-1).
C9_TruncatedExactSum ==
    \A i \in DOMAIN results :
        results[i].keyword_score = TruncDiv(ExactSum(Lower(args.text), args.keywords, 1), 5^8)

\* Start positions of occurrences of kw in t that do not lie inside a larger
\* word: no word character joins a word character of kw at either end.
DelimitedOccurrences(kw, t) ==
    { p \in 1..Len(t) :
        /\ OccursAt(kw, t, p)
        /\ ~(IsWordChar(kw[1]) /\ p > 1 /\ IsWordChar(t[p - 1]))
        /\ ~(IsWordChar(kw[Len(kw)]) /\ p + Len(kw) <= Len(t) /\ IsWordChar(t[p + Len(kw)])) }

IsPrefix(s, t) == Len(s) <= Len(t) /\ SubSeq(t, 1, Len(s)) = s

InSeq(x, s) == \E i \in DOMAIN s : s[i] = x

\* The keywords that have an occurrence not inside a larger word.
DelimitedKeywords(text, keywords) ==
    SelectSeq(keywords, LAMBDA e : DelimitedOccurrences(Lower(e.keyword), text) # {})

\* The occurrence counts matched_keywords reports for keyword kw (a count is at
\* most the length of the text).
ReportedCounts(kw, matched) ==
    { n \in 1..Len(args.text) : InSeq(MatchedEntry(kw, n), matched) }

\* C10: keywords match case-insensitively and only at word boundaries: an
\* occurrence inside a larger word adds nothing to the count reported in
\* matched_keywords (for a keyword that begins and ends with a word character
\* the count is the number of the other occurrences), and a keyword with only
\* such occurrences is neither reported nor scored.
C10_WordBoundaryOnly ==
    \A i \in DOMAIN results :
        /\ \A j \in DOMAIN args.keywords :
              LET kw  == args.keywords[j].keyword
                  occ == DelimitedOccurrences(Lower(kw), Lower(args.text))
                  rep == ReportedCounts(kw, results[i].matched_keywords)
              IN  /\ occ = {} =>
                        ~\E m \in DOMAIN results[i].matched_keywords :
                            IsPrefix(kw \o <<" ", "(", "x">>, results[i].matched_keywords[m])
                  /\ \A n \in rep : n <= Cardinality(occ)
                  /\ (occ # {} /\ IsWordChar(kw[1]) /\ IsWordChar(kw[Len(kw)])) =>
                        Cardinality(occ) \in rep
        /\ results[i].keyword_score
             = score_keywords(Lower(args.text),
                              DelimitedKeywords(Lower(args.text), args.keywords)).score

\* A scored text that holds "sql" only inside "sqlite", next to an upper-case
\* "Python" that the lower-case pattern matches.
C10_Witness ==
    /\ Scored
    /\ Contains(Lower(args.text), <<"s", "q", "l", "i", "t", "e">>)
    /\ DelimitedOccurrences(<<"s", "q", "l">>, Lower(args.text)) = {}
    /\ InSeq(MatchedEntry(K_Python, 1), results[1].matched_keywords)
    /\ \E j \in DOMAIN args.keywords :
          args.keywords[j].keyword = K_SQL /\ args.keywords[j].weight # 0

\* The policy without its entry j.
RemoveAt(keywords, j) == SubSeq(keywords, 1, j - 1) \o SubSeq(keywords, j + 1, Len(keywords))

\* The positions of matched_keywords that report keyword kw.
EntryIndexes(kw, matched) ==
    { m \in DOMAIN matched : IsPrefix(kw \o <<" ", "(", "x">>, matched[m]) }

\* C11: a keyword of weight 0 that occurs in the text is reported in
\* matched_keywords with its raw occurrence count, at the place the policy's
\* order gives it among the other reported keywords, and keyword_score is what
\* the policy without that keyword yields.
C11_ZeroWeightEvaluated ==
    \A i \in DOMAIN results :
        \A j \in DOMAIN args.keywords :
            LET kw  == args.keywords[j].keyword
                occ == DelimitedOccurrences(Lower(kw), Lower(args.text))
                mk  == results[i].matched_keywords
            IN  (args.keywords[j].weight = 0 /\ occ # {}) =>
                    /\ \E m \in DOMAIN mk : mk[m] = MatchedEntry(kw, Cardinality(occ))
                    /\ Cardinality(EntryIndexes(kw, mk)) = 1
                    /\ \A j2 \in DOMAIN args.keywords :
                          \A m \in EntryIndexes(kw, mk),
                             m2 \in EntryIndexes(args.keywords[j2].keyword, mk) :
                              /\ j2 < j => m2 < m
                              /\ j2 > j => m2 > m
                    /\ results[i].keyword_score
                         = score_keywords(Lower(args.text), RemoveAt(args.keywords, j)).score

\* A scored text in which "sql", of weight 0, occurs more than once, between a
\* reported keyword before it and one after it in the policy.
C11_Witness ==
    /\ Scored
    /\ \E j \in DOMAIN args.keywords :
          /\ args.keywords[j].keyword = K_SQL
          /\ args.keywords[j].weight = 0
    /\ Cardinality(DelimitedOccurrences(<<"s", "q", "l">>, Lower(args.text))) > 1
    /\ Len(results[1].matched_keywords) = 3
    /\ results[1].keyword_score # 0

\* The text and the explicit location field of the call, lower-cased.
TextAndLocation == Lower(args.text) \o Space \o Lower(args.location)

\* The preferred cities (the preferred locations that are no remote synonym)
\* that appear in s.
CitiesIn(s) ==
    { k \in DOMAIN preferred_locations :
        preferred_locations[k] \notin RemoteTier /\ Contains(s, preferred_locations[k]) }

\* C12: when a remote/hybrid synonym appears in the text or the location field,
\* location_score is 3, however many synonyms or preferred cities appear as well;
\* otherwise it is +1 for each preferred city that appears.
C12_RemoteTierNotStacking ==
    \A i \in DOMAIN results :
        results[i].location_score =
            IF \E s \in RemoteTier : Contains(TextAndLocation, s)
            THEN 3
            ELSE Cardinality(CitiesIn(TextAndLocation))

\* The occurrences <<synonym, position>> of remote-work synonyms in s.
RemoteSynonymHits(s) ==
    { h \in (DOMAIN remote_indicators) \X (1..Len(s)) :
        OccursAt(remote_indicators[h[1]], s, h[2]) }

\* C13: remote_bonus is bonus_remote when a remote-work synonym occurs in the
\* lower-cased text, whatever the number of synonyms and repetitions, and 0
\* when none occurs.
C13_RemoteBonusOnce ==
    \A i \in DOMAIN results :
        results[i].remote_bonus =
            IF RemoteSynonymHits(Lower(args.text)) = {} THEN 0 ELSE args.bonus_remote

\* A scored text with two different remote-work synonyms and a non-zero
\* bonus_remote.
C13_Witness ==
    /\ Scored
    /\ args.bonus_remote # 0
    /\ Cardinality({ h[1] : h \in RemoteSynonymHits(Lower(args.text)) }) >= 2
    /\ results[1].remote_bonus = args.bonus_remote

\* The negative keywords of the scorer that appear in s.
NegativeTermsIn(s) ==
    { k \in DOMAIN negative_keywords : Contains(s, negative_keywords[k]) }

\* The senior-class terms: "senior", "lead", "head", and "leiter".
SeniorClass == SeniorTier \cup { <<"h", "e", "a", "d">> }

\* C14: each senior-class term ("senior", "lead", "head", ...) triggers the full
\* malus_senior: a text whose only negative term is one senior-class term has
\* seniority_malus = malus_senior.
C14_SeniorClassFullMalus ==
    \A i \in DOMAIN results :
        LET neg == NegativeTermsIn(Lower(args.text))
        IN  (/\ args.malus_senior >= 0
             /\ Cardinality(neg) = 1
             /\ \A k \in neg : negative_keywords[k] \in SeniorClass)
                => results[i].seniority_malus = args.malus_senior

\* The text holds full-time terms ("vollzeit", "40 stunden") and no other
\* negative term.
OnlyFulltimeTerms ==
    LET neg == NegativeTermsIn(Lower(args.text))
    IN  /\ neg # {}
        /\ \A k \in neg : negative_keywords[k] \in FulltimeTier

\* C15 as stated: with only full-time terms in the text, seniority_malus is
\* max(1, malus_senior // 2) for every malus_senior >= 0 and any number of
\* full-time terms.
C15_FulltimeOnlyAsStated ==
    \A i \in DOMAIN results :
        (args.malus_senior >= 0 /\ OnlyFulltimeTerms) =>
            results[i].seniority_malus = Max(1, args.malus_senior \div 2)

\* C15 amended: with only full-time terms in the text, seniority_malus is
\* max(1, malus_senior // 2) for each distinct full-time term present, capped at
\* 2 * malus_senior.
C15_FulltimeOnlyAmended ==
    \A i \in DOMAIN results :
        (args.malus_senior >= 0 /\ OnlyFulltimeTerms) =>
            results[i].seniority_malus =
                Min(2 * args.malus_senior,
                    Cardinality(NegativeTermsIn(Lower(args.text)))
                      * Max(1, args.malus_senior \div 2))

\* A scored text with both full-time terms and malus_senior = 1, where the floor
\* of 1 applies to each term.
C15_Witness ==
    /\ Scored
    /\ OnlyFulltimeTerms
    /\ Cardinality(NegativeTermsIn(Lower(args.text))) = 2
    /\ args.malus_senior = 1
    /\ results[1].seniority_malus = 2

\* "unbefristet" appears in s and every "befristet" in s is the tail of an
\* "unbefristet": the permanent term without the temporary one.
PermanentWithoutTemporary(s) ==
    /\ Contains(s, S_unbefristet)
    /\ \A p \in 1..Len(s) : OccursAt(S_befristet, s, p) => OccursAt(S_unbefristet, s, p - 2)

\* C16: when "unbefristet" appears in the text without the temporary term
\* "befristet", length_penalty holds the +1 of the permanent contract, alone (1)
\* or on top of the +2 of full-time (3).
C16_PermanentAddsOne ==
    \A i \in DOMAIN results :
        PermanentWithoutTemporary(Lower(args.text)) => results[i].length_penalty \in {1, 3}

\* The posting indicates full-time and neither part-time nor a student job.
FulltimeIndicated ==
    /\ Lower(args.job_type) = S_fulltime \/ Contains(Lower(args.text), S_vollzeit)
    /\ ~Contains(Lower(args.text), S_teilzeit)
    /\ ~Contains(Lower(args.text), S_werkstudent)

\* C17: length_penalty includes the +2 of full-time exactly when job_type is
\* "fulltime" or the text contains "vollzeit", and the text contains neither
\* "teilzeit" nor "werkstudent".
C17_FulltimeAddsTwo ==
    \A i \in DOMAIN results :
        /\ results[i].length_penalty \in 0..3
        /\ (results[i].length_penalty >= 2) <=> FulltimeIndicated

\* A scored posting whose job_type alone ("Fulltime") indicates full-time, and
\* whose text holds a term besides the ones the rule excludes.
C17_Witness ==
    /\ Scored
    /\ Lower(args.job_type) = S_fulltime
    /\ ~Contains(Lower(args.text), S_vollzeit)
    /\ Contains(Lower(args.text), S_befristet)
    /\ results[1].length_penalty = 2

C19_SeniorLeadIsSix ==
    \A i \in DOMAIN results :
        (/\ args.malus_senior = 3
         /\ Contains(Lower(args.text), <<"s", "e", "n", "i", "o", "r">>)
         /\ Contains(Lower(args.text), <<"l", "e", "a", "d">>))
            => results[i].seniority_malus = 6

\* "Senior Lead" scored with malus_senior = 3 together with a further senior-tier
\* term and two more negative terms.
C19_Witness ==
    /\ Scored
    /\ args.malus_senior = 3
    /\ IsPrefix(SeniorLeadText, args.text)
    /\ Cardinality(NegativeTermsIn(Lower(args.text))) >= 5
    /\ Contains(Lower(args.text), <<"l", "e", "i", "t", "e", "r">>)
    /\ results[1].seniority_malus = 6

\* Occurrence counts 1..MaxMatches (and one more) are compared.
MaxMatches == 11

\* The contribution of one keyword of weight w that occurs n times, before the
\* truncation: what the loop body of _score_keywords adds to a score of 0.
Contribution(w, n) == AddContribution(FloatZero, w, n)

\* x <= y for two floats that are not negative
FloatLeq(x, y) == ~MagLess(y.m, x.m)

\* The float is 1.92 * w up to the rounding of binary64: 100 times the float
\* differs from 192 * w by less than 2^-32.
Is192Hundredths(x, w) ==
    LET a == MagMulSmall(100, x.m)
        b == <<192 * w * 256, 0, 0>>
        d == IF MagLess(a, b) THEN MagSub(b, a) ELSE MagSub(a, b)
    IN  d[1] = 0 /\ d[2] = 0

\* The one keyword of the policy that the text matched, if it is the only one.
OnlyMatched(i) ==
    /\ args.keywords[i].weight > 0
    /\ \E n \in 1..Len(args.text) :
          results[1].matched_keywords = << MatchedEntry(args.keywords[i].keyword, n) >>

\* The contribution of a keyword of weight w is greatest at 3 occurrences,
\* where it is 1.92 * w, is below that at every other count, and does not grow
\* from 3 occurrences on.
GreatestAtThree(w) ==
    /\ Is192Hundredths(Contribution(w, 3), w)
    /\ \A n \in 1..MaxMatches :
          /\ FloatLeq(Contribution(w, n), Contribution(w, 3))
          /\ n # 3 => Contribution(w, n) # Contribution(w, 3)
          /\ n >= 3 => FloatLeq(Contribution(w, n + 1), Contribution(w, n))

\* The same, worked out once for the weights 1..MaxWeight.
GreatestAtThreeUpToMaxWeight == [w \in 1..MaxWeight |-> GreatestAtThree(w)]

\* C27: for every keyword of positive weight w the contribution before
\* truncation is greatest at 3 occurrences, where it is 1.92 * w, is below that
\* at every other count, and does not grow from 3 occurrences on; a text that
\* matches only this keyword, however often, gets a keyword_score of at most
\* int(1.92 * w).
C27_RepetitionBounded ==
    \A i \in DOMAIN args.keywords :
        LET w == args.keywords[i].weight
        IN  w > 0 =>
              /\ IF w <= MaxWeight THEN GreatestAtThreeUpToMaxWeight[w]
                  ELSE GreatestAtThree(w)
              /\ Scored /\ OnlyMatched(i) =>
                    results[1].keyword_score <= FloatToInt(Contribution(w, 3))

\* "Python" with weight 3 five times and nothing else: the keyword_score is 3,
\* below the 5 of three occurrences.
C27_Witness ==
    /\ Scored
    /\ args.keywords[1].weight = 3
    /\ results[1].matched_keywords = << MatchedEntry(args.keywords[1].keyword, 5) >>
    /\ results[1].keyword_score = 3
    /\ FloatToInt(Contribution(3, 3)) = 5

\* Location arguments a second call is made with.
OtherLocations ==
    { << >>,
      <<"R", "e", "m", "o", "t", "e", " ", "F", "r", "a", "n", "k", "f", "u", "r", "t">> }

\* The ScoringResult of the call with the arguments of this behaviour but the
\* location given.
AtLocation(location) ==
    score_job(self, args.text, args.keywords, args.bonus_remote, args.malus_senior,
              location, args.job_type)

\* C28: a call that differs from the one made only in its location argument
\* returns the same remote_bonus, seniority_malus, keyword_score and
\* length_penalty (and the same matched keywords and warning flags); the
\* total_score differs by the difference of the location_scores.
C28_LocationOnlyInLocationScore ==
    Scored =>
        \A location \in OtherLocations :
            \A other \in {AtLocation(location)} :
                \A i \in DOMAIN results :
                    /\ other.remote_bonus = results[i].remote_bonus
                    /\ other.seniority_malus = results[i].seniority_malus
                    /\ other.keyword_score = results[i].keyword_score
                    /\ other.length_penalty = results[i].length_penalty
                    /\ other.matched_keywords = results[i].matched_keywords
                    /\ other.warning_flags = results[i].warning_flags
                    /\ other.total_score - other.location_score
                          = results[i].total_score - results[i].location_score

\* The call was made with the location "Remote" and a text without a remote
\* indicator: no remote_bonus, and a location_score the call with the empty
\* location does not get.
C28_Witness ==
    /\ Scored
    /\ args.location = <<"R", "e", "m", "o", "t", "e">>
    /\ args.bonus_remote # 0
    /\ results[1].remote_bonus = 0
    /\ results[1].location_score = 3
    /\ AtLocation(<< >>).location_score = 0
    /\ AtLocation(<< >>).total_score = results[1].total_score - 3


(***************************************************************************)
(* Properties of a scoring pass (checked under SpecPass)                   *)
(***************************************************************************)

\* The ScoringResult of posting i of the pass when it is scored alone, by a
\* fresh scorer.
ScoredAlone(i) ==
    score_job(NewJobScorer, scoring_pass.postings[i].text, scoring_pass.keywords, 2, 3,
              scoring_pass.postings[i].location, scoring_pass.postings[i].job_type)

Filtered == pc \in {"filtered", "done"}

\* C4: every entry filter_top_jobs returns has score >= min_score, and there are
\* at most top_k of them (none when top_k is not positive).
C4_FilterBounds ==
    Filtered =>
        /\ \A i \in DOMAIN top_jobs : top_jobs[i].score >= config.min_score
        /\ Len(top_jobs) <= Max(config.top_k, 0)

\* C5: top_k <= 0 yields an empty result; so does a min_score no posting reaches,
\* and then the run completes without letter generation.
C5_EmptyResults ==
    Filtered =>
        /\ config.top_k <= 0 => top_jobs = << >>
        /\ (\A i \in DOMAIN jobs_df : jobs_df[i].score < config.min_score) =>
              /\ top_jobs = << >>
              /\ pc = "done" => letters = NotCalled

\* C6: postings of equal score keep the relative order of the deduplicated input,
\* in the scored frame and in the filtered one.
C6_StableRanking ==
    /\ \A i, j \in DOMAIN jobs_df :
          (i < j /\ jobs_df[i].score = jobs_df[j].score) => jobs_df[i].index < jobs_df[j].index
    /\ \A i, j \in DOMAIN top_jobs :
          (i < j /\ top_jobs[i].score = top_jobs[j].score) => top_jobs[i].index < top_jobs[j].index

\* The validator records an error for the weight of a keyword of the policy.
WeightErrorRecorded ==
    \E i \in DOMAIN validate_scoring_config(config).errors :
        validate_scoring_config(config).errors[i].keyword # << >>

\* C20: a policy with a non-numeric weight is rejected with a
\* ConfigurationError before any posting is scored (the run gets no further
\* than its scraped frames), and no run fails while scoring a posting.
C20_PolicyRejectedAtValidation ==
    /\ WeightErrorRecorded =>
          /\ pc \in {"scraped", "failed"}
          /\ pc = "failed" => raised = "ConfigurationError"
    /\ raised # "TypeError"

\* The rows the frames hold, in the order pd.concat puts them.
InputRows == Concat(frames)

\* The job_url cell holds no deduplication key: it is nan or the empty str.
NoJobUrl(value) == value \in {NaNUrl, ""}

\* C21: a posting whose job_url is missing or empty never appears in the ranked
\* output (jobs_df) nor in the filtered output (top_jobs), and the run is not
\* ended by it: with a well-formed policy the run does not fail.
C21_KeylessPostingExcluded ==
    /\ \A i \in DOMAIN jobs_df : ~NoJobUrl(jobs_df[i].job_url)
    /\ \A i \in DOMAIN top_jobs : ~NoJobUrl(top_jobs[i].job_url)
    /\ (\E i \in DOMAIN InputRows : NoJobUrl(InputRows[i].job_url))
          /\ (\A i \in DOMAIN config.keywords : IsNumeric(config.keywords[i]))
          => pc # "failed"

\* process_and_score_jobs has returned: jobs_df holds the deduplicated, scored
\* and sorted rows.
Processed == pc \in {"scored", "filtered", "done"}

\* The position in the concatenated input of the first row with this job_url.
FirstWith(url) ==
    CHOOSE k \in DOMAIN InputRows :
        /\ InputRows[k].job_url = url
        /\ \A j \in 1..(k - 1) : InputRows[j].job_url # url

\* C22: after the deduplication of process_and_score_jobs no two postings share
\* a job_url, every job_url of the input is still present, and the posting kept
\* for a job_url is the first one of the concatenated input; the kept postings
\* are numbered in input order.
C22_FirstSeenWins ==
    Processed =>
        /\ \A i, j \in DOMAIN jobs_df :
              i # j => jobs_df[i].job_url # jobs_df[j].job_url
        /\ \A k \in DOMAIN InputRows :
              \E i \in DOMAIN jobs_df : jobs_df[i].job_url = InputRows[k].job_url
        /\ \A i \in DOMAIN jobs_df :
              /\ \E k \in DOMAIN InputRows : InputRows[k].job_url = jobs_df[i].job_url
              /\ jobs_df[i].title = InputRows[FirstWith(jobs_df[i].job_url)].title
        /\ \A i, j \in DOMAIN jobs_df :
              jobs_df[i].index < jobs_df[j].index
                 <=> FirstWith(jobs_df[i].job_url) < FirstWith(jobs_df[j].job_url)

\* Two frames, a job_url in both with different titles, and a second job_url:
\* the deduplication has acted on them.
C22_Witness ==
    /\ Processed
    /\ Len(frames) = 2
    /\ Len(jobs_df) = 2
    /\ \E a \in DOMAIN frames[1], b \in DOMAIN frames[2] :
          /\ frames[1][a].job_url = frames[2][b].job_url
          /\ frames[1][a].title # frames[2][b].title

(***************************************************************************)
(* Properties of the keyword analysis (checked under SpecAnalysis)         *)
(***************************************************************************)

Analysed == analysis.state = "returned"

\* C23: for every keyword the analysis reports match_rate = jobs_matched /
\* number of postings (0 for the empty corpus) and efficiency =
\* total_score_contribution / weight for every weight other than 0, positive or
\* negative (0 for the weight 0).
C23_AnalyticsRatios ==
    Analysed =>
        \A i \in DOMAIN analysis.keyword_stats :
            LET st == analysis.keyword_stats[i]
                n  == Len(analysis.jobs_df)
            IN  /\ st.match_rate = (IF n = 0 THEN Zero ELSE TrueDiv(st.jobs_matched, n))
                /\ st.efficiency = (IF st.weight = 0 THEN Zero
                                    ELSE TrueDiv(st.total_score_contribution, st.weight))

(***************************************************************************)
(* Properties of the pipeline on sparse rows and of the filter (checked    *)
(* under SpecRun)                                                          *)
(***************************************************************************)

\* The row with the empty str in place of a nan title.
WithEmptyTitle(row) == [row EXCEPT !.title = << >>]

\* C24: a posting whose title is missing is scored without error and exactly
\* as if the title were the empty string: its scoring text is that of the
\* empty title (the joining spaces only) and so is its score.
C24_MissingFieldAsEmpty ==
    /\ (\E i \in DOMAIN InputRows : InputRows[i].title = NaN)
          /\ (\A i \in DOMAIN config.keywords : IsNumeric(config.keywords[i]))
          => pc # "failed"
    /\ \A i \in DOMAIN jobs_df :
          jobs_df[i].title = NaN =>
              /\ RowText(jobs_df[i]) = RowText(WithEmptyTitle(jobs_df[i]))
              /\ jobs_df[i].score =
                    compute_score(RowText(WithEmptyTitle(jobs_df[i])), config.keywords,
                                  2, 3, << >>, << >>)

\* The rows of jobs_df that qualify: score >= min_score.
Qualifying == { i \in DOMAIN jobs_df : jobs_df[i].score >= config.min_score }

\* The row of jobs_df is among the filtered rows.
Included(i) == \E j \in DOMAIN top_jobs : top_jobs[j].job_url = jobs_df[i].job_url

\* C25: for top_k >= 0 the filtered output holds min(top_k, number of
\* qualifying postings) qualifying postings, its scores are non-increasing, and
\* no qualifying posting left out has a score strictly greater than that of a
\* posting included.
C25_TopOfDescendingOrder ==
    Filtered /\ config.top_k >= 0 =>
        /\ Len(top_jobs) = Min(config.top_k, Cardinality(Qualifying))
        /\ \A j \in DOMAIN top_jobs :
              /\ top_jobs[j].score >= config.min_score
              /\ \E i \in Qualifying : jobs_df[i] = top_jobs[j]
        /\ \A j \in 1..(Len(top_jobs) - 1) : top_jobs[j].score >= top_jobs[j + 1].score
        /\ \A i \in Qualifying :
              ~Included(i) => \A j \in DOMAIN top_jobs : jobs_df[i].score <= top_jobs[j].score

\* top_k = 1 has cut a qualifying posting of lower score off, below the one
\* kept, and min_score has removed nothing.
C25_Witness ==
    /\ Filtered
    /\ config.top_k = 1
    /\ Len(top_jobs) = 1
    /\ \E i \in Qualifying : ~Included(i) /\ jobs_df[i].score < top_jobs[1].score

(***************************************************************************)
(* Properties of generate_cover_letter (checked under SpecGeneration)      *)
(***************************************************************************)

Generated == generation.state = "returned"

\* The prompt the generator sends for the job of this generation
SentPrompt ==
    Replace(Replace(generation.prompt_template, Placeholder("job_title"),
                    Strip(Get(generation.job, "job_title", << >>))),
            Placeholder("company"), Strip(Get(generation.job, "company", << >>)))

\* The failures of one generation, each stated on the inputs: the library or
\* the key is missing, a field of the job is no text, the prompt is blank, no
\* model is named, the API call fails or answers without content, the answer
\* is blank, or nothing is left of it after the clean-up.
ConstructionFails ==
    ~generation.env.OPENAI_AVAILABLE \/ generation.env.OPENAI_API_KEY = << >>

GenerationFails ==
    \/ \E key \in DOMAIN generation.job : generation.job[key] = NaN
    \/ Strip(SentPrompt) = << >>
    \/ "model" \in DOMAIN generation.cfg_llm /\ generation.cfg_llm.model = << >>
    \/ generation.env.api.kind # "content"
    \/ Strip(generation.env.api.content) = << >>
    \/ post_process_response(Strip(generation.env.api.content)).raised # "none"

\* C29: generate_cover_letter never raises to its caller; when constructing
\* the generator or generating fails (missing library or API key, empty
\* prompt, API error, empty response, ...) it returns the fallback letter,
\* and otherwise it returns the post-processed LLM text, which is not empty,
\* holds no code fence and ends with '.', '!' or '?'.
C29_FallbackOrPostProcessed ==
    Generated =>
        /\ generation.outcome.raised = "none"
        /\ IF ConstructionFails \/ GenerationFails
           THEN generation.outcome.value = generate_fallback_letter(generation.job)
           ELSE \A text \in {generation.outcome.value} :
                    /\ text = post_process_response(Strip(generation.env.api.content)).value
                    /\ Len(text) > 0
                    /\ text[Len(text)] \in {".", "!", "?"}
                    /\ ~Contains(text, CodeFence)

\* C29 witness: with library, key, prompt and model in place the API call
\* raises, and the caller holds the fallback letter for the job's company.
C29_Witness ==
    /\ Generated
    /\ ~ConstructionFails
    /\ Strip(SentPrompt) # << >>
    /\ generation.env.api.kind = "raises"
    /\ generation.outcome = Returns(generate_fallback_letter(generation.job))
    /\ Get(generation.job, "company", << >>) = <<"A", "C", "M", "E">>

(***************************************************************************)
(* Properties of validate_all (checked under SpecValidator)                *)
(***************************************************************************)

Validated == validator.state = "done"

\* The names of the steps that ran to their return, in order
StepsRun == [i \in DOMAIN validator.steps |-> validator.steps[i].name]

\* C30: the verdict validate_all returns is True exactly when the errors
\* list is empty: each step that ran returned False exactly when it appended
\* an error, warnings play no part, and after a successful load_config all
\* six validation steps have run, whatever the earlier ones met.
C30_VerdictIffNoErrors ==
    Validated =>
        /\ validator.result.raised = "none" =>
               (validator.result.valid <=> validator.errors = << >>)
        /\ \A i \in DOMAIN validator.steps :
               validator.steps[i].valid <=> validator.steps[i].errors = 0
        /\ validator.file = "loaded" => StepsRun = validation_steps

=============================================================================
